---- MODULE Spec2Model ----
(***************************************************************************)
(* Staged balance-release workflow of the contest backend: the User and    *)
(* Withdrawal collections and the request handlers that read and write     *)
(* them (withdrawalController, authController, paymentController,          *)
(* adminController).                                                       *)
(*                                                                         *)
(* Money is kept in cents, so that Math.round(balance * 0.01 * 100) / 100  *)
(* is integer arithmetic: a balance of b cents owes round(b / 100) cents   *)
(* of tax.  A document's save() persists the document as the handler holds *)
(* it in memory.  Handlers run one after the other, except in              *)
(* SpecConcurrent, where two create requests interleave at their awaits.   *)
(***************************************************************************)
EXTENDS Integers, Sequences, FiniteSets, TLC

VARIABLES
    users,        \* the User collection: user id -> document
    withdrawals,  \* the Withdrawal collection in insertion (createdAt) order; the id is the index
    last,         \* the response of the handler that ran last
    pinMatched,   \* history: the <<user, stage>> pairs whose PIN comparison has succeeded
    bound,        \* the sizes this run may reach (fixed by the initial state)
    calls,        \* create requests in flight: request -> what it has read so far
    accounts      \* the credentials registered in this run: username -> hash and role

vars == <<users, withdrawals, last, pinMatched, bound, calls, accounts>>

----------------------------------------------------------------------------
(* Bounds of the exploration *)

\* notifications written in a run that starts from the empty database
MaxNotifs == 2
\* notifications written in a run that starts after the admin has issued every PIN
MaxIssuedNotifs == 2
\* withdrawal documents
MaxWithdrawals == 2
\* payment submissions
MaxPayments == 1

----------------------------------------------------------------------------
(* Domains *)

Users == {"u1", "u2"}

\* the users whose requests and whose admin edits Spec explores
Actors == {"u1"}

stages == <<"activation", "tax", "insurance", "verification", "security", "access">>

StageNames == {stages[i] : i \in 1..Len(stages)}

Pins == {"1234", "5678"}

\* the PIN the admin issues for a stage
IssuedPin(stage) == IF stage \in {"activation", "insurance", "security"} THEN "1234" ELSE "5678"

Statuses == {"preview", "pending_activation", "approved", "rejected", "ready_for_payout"}

\* balances an admin writes, in cents: $10.50 and $10000
BalanceInputs == {1050, 1000000}

\* the balance field of an edit request: a number, or absent
BalanceArgs ==
    {[isNumber |-> FALSE, value |-> 0]} \cup {[isNumber |-> TRUE, value |-> b] : b \in BalanceInputs}

TimerActions == {"none", "startTimer", "stopTimer"}

\* method and details of a withdrawal request: details "full" holds every field
\* the method asks for, "empty" holds none
PayoutInputs ==
    { [method |-> "crypto", details |-> "full"],
      [method |-> "bank", details |-> "empty"] }

country == [u \in Users |-> IF u = "u1" THEN "usa" ELSE "other"]

NoPin == [pin |-> "", set |-> FALSE, discoveredFromNotification |-> FALSE]

NoWithdrawal == 0

\* the requests that can be in flight at once
Requests == {"r1", "r2"}

\* a request that has not been sent, or has been answered
Idle == [pc |-> "idle", op |-> "", caller |-> "", amount |-> 0, method |-> "", details |-> ""]

NoCalls == [r \in Requests |-> Idle]

\* the usernames as typed, and what trim and toLowerCase make of them
UsernameInputs == {"bob", " Bob ", "carol", "Admin"}

\* normalizeUsername: String(u).trim().toLowerCase()
normalizeUsername(u) ==
    CASE u = " Bob " -> "bob"
      [] u = "Admin" -> "admin"
      [] OTHER -> u

Usernames == {normalizeUsername(u) : u \in UsernameInputs}

\* process.env.ADMIN_USERNAME, trimmed and lowercased, and process.env.ADMIN_PASSWORD
envAdminUsername == "admin"

envAdminPassword == "AdminP@ss1"

PasswordInputs == {"StrongP@ss1", "Other#Pass2", envAdminPassword, "weakpass"}

\* (length >= 8) + has upper case + has digit + has another character
pwScore(password) == IF password = "weakpass" THEN 1 ELSE 4

\* bcrypt.hash(password, 10) and bcrypt.compare(password, hashed)
Hash(password) == [bcrypt |-> password]

Compare(password, hashed) == hashed = Hash(password)

NoToken == [id |-> "", role |-> "", admin |-> FALSE]

NoAccount == [registered |-> FALSE, password |-> Hash(""), role |-> ""]

NoAccounts == [n \in Usernames |-> NoAccount]

----------------------------------------------------------------------------
(* Notifications and the text the PIN fallback scans *)

PinNotification(stage, pin) == [kind |-> "pin", stage |-> stage, pin |-> pin]

AcceptedNotification(stage) == [kind |-> "accepted", stage |-> stage, pin |-> ""]

CreditedNotification == [kind |-> "credited", stage |-> "", pin |-> ""]

ApprovedNotification == [kind |-> "approved", stage |-> "", pin |-> ""]

\* free text an admin sends: "tax code 1234"
FreeTexts == { [kind |-> "free", stage |-> "tax", pin |-> "1234"] }

\* regex.exec(n.text) for the stage: the four digits captured, "" when no match.
\* Only "Your <stage> pin is: <pin>" and free text naming the stage before a
\* 4-digit number match; the other templates hold no stage name followed by digits.
RegexExec(n, stage) ==
    IF n.kind \in {"pin", "free"} /\ n.stage = stage THEN n.pin ELSE ""

\* the scan of notifications, newest first: the first match, "" when none
RECURSIVE FindPinFrom(_, _, _)
FindPinFrom(notifs, i, stage) ==
    IF i = 0 THEN ""
    ELSE IF RegexExec(notifs[i], stage) # "" THEN RegexExec(notifs[i], stage)
    ELSE FindPinFrom(notifs, i - 1, stage)

\* a scan that takes the newest notification carrying digits, whatever stage it names
FindPinAnyStage(notifs, stage) ==
    LET hits == {i \in 1..Len(notifs) : notifs[i].pin # ""}
    IN IF hits = {} THEN ""
       ELSE notifs[CHOOSE i \in hits : \A j \in hits : j <= i].pin

\* a scan that takes the oldest matching notification
FindPinOldest(notifs, stage) ==
    LET hits == {i \in 1..Len(notifs) : RegexExec(notifs[i], stage) # ""}
    IN IF hits = {} THEN ""
       ELSE RegexExec(notifs[CHOOSE i \in hits : \A j \in hits : i <= j], stage)

FindPin(notifs, stage) == FindPinFrom(notifs, Len(notifs), stage)

----------------------------------------------------------------------------
(* Helpers *)

RECURSIVE SumNotifs(_, _)
SumNotifs(U, S) ==
    IF S = {} THEN 0
    ELSE LET u == CHOOSE x \in S : TRUE
         IN Len(U[u].notifications) + SumNotifs(U, S \ {u})

NotifCount(U) == SumNotifs(U, Users)

RECURSIVE SumPayments(_, _)
SumPayments(W, i) ==
    IF i = 0 THEN 0 ELSE Len(W[i].payments) + SumPayments(W, i - 1)

PaymentCount(W) == SumPayments(W, Len(W))

\* stages.indexOf(stage), 0-based, -1 when absent
IndexOf(stage) ==
    IF stage \in StageNames
    THEN (CHOOSE i \in 1..Len(stages) : stages[i] = stage) - 1
    ELSE -1

\* Withdrawal.findOne({ user }).sort({ createdAt: -1 }): id of the newest, 0 when none
Latest(W, uid) ==
    LET mine == {i \in 1..Len(W) : W[i].user = uid}
    IN IF mine = {} THEN NoWithdrawal
       ELSE CHOOSE i \in mine : \A j \in mine : j <= i

\* the "in progress" test of createPreview, withdrawRequest and withdrawProceed
InProgress(w) == w.status \notin {"approved", "rejected"} /\ w.stage # "access"

\* Math.round(x / 100) for an integer x: halves round up
RoundDiv100(x) == (x + 50) \div 100

\* a tax that drops the fraction of a cent instead of rounding it
TaxAmountTruncated(balance) == balance \div 100

\* Math.round((Number(user.balance || 0) * 0.01) * 100) / 100, in cents
TaxAmount(balance) == RoundDiv100(balance)

NoPreview == [amount |-> 0, method |-> "", details |-> ""]

Preview(w) == [amount |-> w.amount, method |-> w.method, details |-> w.details]

Resp(op, caller, code, msg) ==
    [op |-> op, caller |-> caller, code |-> code, msg |-> msg,
     withdrawalId |-> NoWithdrawal, stage |-> "", status |-> "",
     nextStage |-> "", amount |-> 0, preview |-> NoPreview]

Outcome(U, W, resp) == [users |-> U, withdrawals |-> W, resp |-> resp]

----------------------------------------------------------------------------
(* Initial state: registered users, no withdrawals *)

NewUser ==
    [balance |-> 0, timerActive |-> FALSE, timerEnds |-> "null",
     activationPins |-> [s \in StageNames |-> NoPin],
     activationStatus |-> [s \in StageNames |-> FALSE],
     notifications |-> <<>>, payments |-> <<>>]

InitDb ==
    /\ users = [u \in Users |-> NewUser]
    /\ withdrawals = <<>>
    /\ last = Resp("none", "", 0, "")
    /\ pinMatched = {}
    /\ calls = NoCalls
    /\ accounts = NoAccounts

Init ==
    /\ InitDb
    /\ bound = [notifs |-> MaxNotifs, withdrawals |-> MaxWithdrawals, payments |-> MaxPayments]

\* the same database, explored without payment submissions
InitLifecycle ==
    /\ InitDb
    /\ bound = [notifs |-> MaxNotifs, withdrawals |-> MaxWithdrawals, payments |-> 0]

----------------------------------------------------------------------------
(* adminController *)

\* an edit that replaces the notifications by the one it writes
EditUserDocClearsNotifications(user, balance, action) ==
    [user EXCEPT !.notifications = <<CreditedNotification>>]

\* editUser: balance is applied when it is a number; the timer action follows
EditUserDoc(user, balance, action) ==
    LET u1 == IF balance.isNumber THEN [user EXCEPT !.balance = balance.value] ELSE user
        u2 == IF action = "startTimer"
                THEN [u1 EXCEPT !.timerActive = TRUE, !.timerEnds = "future"]
              ELSE IF action = "stopTimer"
                THEN [u1 EXCEPT !.timerActive = FALSE, !.timerEnds = "null", !.balance = 0]
              ELSE u1
    IN [u2 EXCEPT !.notifications = Append(@, CreditedNotification)]

editUser(U, W, id, balance, action) ==
    Outcome([U EXCEPT ![id] = EditUserDoc(U[id], balance, action)], W,
            Resp("editUser", "admin", 200, "User updated"))

\* a setPin that keeps a record already set for the stage
setPinForUserKeepsSet(U, W, userId, stage, pin) ==
    LET rec == IF U[userId].activationPins[stage].set
               THEN U[userId].activationPins[stage]
               ELSE [pin |-> pin, set |-> TRUE, discoveredFromNotification |-> FALSE]
        doc == [U[userId] EXCEPT
                   !.activationPins = [@ EXCEPT ![stage] = rec],
                   !.notifications = Append(@, PinNotification(stage, pin))]
    IN Outcome([U EXCEPT ![userId] = doc], W,
               Resp("setPinForUser", "admin", 200, "Pin set"))

\* adminController.setPinForUser (POST /api/admin/users/:userId/set-pin)
setPinForUser(U, W, userId, stage, pin) ==
    LET rec == [pin |-> pin, set |-> TRUE, discoveredFromNotification |-> FALSE]
        doc == [U[userId] EXCEPT
                   !.activationPins = [@ EXCEPT ![stage] = rec],
                   !.notifications = Append(@, PinNotification(stage, pin))]
    IN Outcome([U EXCEPT ![userId] = doc], W,
               Resp("setPinForUser", "admin", 200, "Pin set"))

notifyUser(U, W, userId, text) ==
    Outcome([U EXCEPT ![userId].notifications = Append(@, text)], W,
            Resp("notifyUser", "admin", 200, "Notification sent"))

----------------------------------------------------------------------------
(* withdrawalController and authController: create or resume a preview *)

\* a new withdrawal that starts as pending_activation
NewWithdrawalPending(uid, user, method, details) ==
    [user |-> uid, amount |-> user.balance, method |-> method, details |-> details,
     status |-> "pending_activation", stage |-> "activation", payments |-> <<>>]

NewWithdrawal(uid, user, method, details) ==
    [user |-> uid, amount |-> user.balance, method |-> method, details |-> details,
     status |-> "preview", stage |-> "activation", payments |-> <<>>]

ResumeResp(op, caller, W, id) ==
    [Resp(op, caller, 200, "Existing withdrawal in progress") EXCEPT
        !.withdrawalId = id, !.preview = Preview(W[id]),
        !.stage = W[id].stage, !.status = W[id].status]

CreatedResp(op, caller, W, id) ==
    [Resp(op, caller, 200, "Preview created") EXCEPT
        !.withdrawalId = id, !.preview = Preview(W[id])]

\* a creation that never looks for a withdrawal in progress
ResumeOrCreateAlways(op, U, W, caller, method, details) ==
    LET W2 == Append(W, NewWithdrawal(caller, U[caller], method, details))
    IN Outcome(U, W2, CreatedResp(op, caller, W2, Len(W2)))

\* the part createPreview and withdrawRequest share: return the newest withdrawal
\* when it is in progress, insert a new one otherwise
ResumeOrCreate(op, U, W, caller, method, details) ==
    LET latest == Latest(W, caller)
    IN IF latest # NoWithdrawal /\ InProgress(W[latest])
       THEN Outcome(U, W, ResumeResp(op, caller, W, latest))
       ELSE LET W2 == Append(W, NewWithdrawal(caller, U[caller], method, details))
            IN Outcome(U, W2, CreatedResp(op, caller, W2, Len(W2)))

\* a createPreview that resumes before it looks at the balance and the timer
createPreviewResumesFirst(U, W, caller, method, details) ==
    LET latest == Latest(W, caller)
    IN IF latest # NoWithdrawal /\ InProgress(W[latest])
       THEN Outcome(U, W, ResumeResp("createPreview", caller, W, latest))
       ELSE IF U[caller].balance < 100
       THEN Outcome(U, W, Resp("createPreview", caller, 400, "InsufficientBalance"))
       ELSE IF ~U[caller].timerActive
       THEN Outcome(U, W, Resp("createPreview", caller, 400, "TimerInactive"))
       ELSE ResumeOrCreate("createPreview", U, W, caller, method, details)

createPreview(U, W, caller, method, details) ==
    IF U[caller].balance < 100
    THEN Outcome(U, W, Resp("createPreview", caller, 400, "InsufficientBalance"))
    ELSE IF ~U[caller].timerActive
    THEN Outcome(U, W, Resp("createPreview", caller, 400, "TimerInactive"))
    ELSE ResumeOrCreate("createPreview", U, W, caller, method, details)

isUSA(c) == c = "usa"

isCanada(c) == c = "canada"

\* the method and details checks of withdrawRequest, by the user's stored country
ValidPayout(c, method, details) ==
    /\ (~isUSA(c) /\ ~isCanada(c)) => method = "crypto"
    /\ method \in {"crypto", "bank", "stripe"}
    /\ details = "full"

withdrawRequest(U, W, caller, method, details) ==
    IF U[caller].balance < 100
    THEN Outcome(U, W, Resp("withdrawRequest", caller, 400, "InsufficientBalance"))
    ELSE IF ~U[caller].timerActive
    THEN Outcome(U, W, Resp("withdrawRequest", caller, 400, "TimerInactive"))
    ELSE IF ~ValidPayout(country[caller], method, details)
    THEN Outcome(U, W, Resp("withdrawRequest", caller, 400, "ValidationFailed"))
    ELSE ResumeOrCreate("withdrawRequest", U, W, caller, method, details)

----------------------------------------------------------------------------
(* proceed *)

\* a proceed that does not look at the owner
proceedWithdrawAnyOwner(U, W, caller, id) ==
    IF id \notin 1..Len(W)
    THEN Outcome(U, W, Resp("proceedWithdraw", caller, 404, "NotFound"))
    ELSE Outcome(U, [W EXCEPT ![id].status = "pending_activation"],
                 Resp("proceedWithdraw", caller, 200, "Proceed recorded"))

\* withdrawalController.proceedWithdraw (POST /api/withdraw/:id/proceed)
proceedWithdraw(U, W, caller, id) ==
    IF id \notin 1..Len(W)
    THEN Outcome(U, W, Resp("proceedWithdraw", caller, 404, "NotFound"))
    ELSE IF W[id].user # caller
    THEN Outcome(U, W, Resp("proceedWithdraw", caller, 403, "Forbidden"))
    ELSE Outcome(U, [W EXCEPT ![id].status = "pending_activation"],
                 Resp("proceedWithdraw", caller, 200, "Proceed recorded"))

\* the amount withdrawProceed shows: the tax when the stage is tax, 0 otherwise
ProceedAmount(w, user) == IF w.stage = "tax" THEN TaxAmount(user.balance) ELSE 0

\* authController.withdrawProceed (POST /api/auth/withdraw-proceed/:id)
withdrawProceed(U, W, caller, id) ==
    LET latest == Latest(W, caller)
    IN IF latest # NoWithdrawal /\ latest # id /\ InProgress(W[latest])
       THEN Outcome(U, W,
                [Resp("withdrawProceed", caller, 200, "Existing withdrawal in progress") EXCEPT
                    !.withdrawalId = latest, !.stage = W[latest].stage,
                    !.status = W[latest].status,
                    !.amount = ProceedAmount(W[latest], U[caller])])
       ELSE IF id \notin 1..Len(W)
       THEN Outcome(U, W, Resp("withdrawProceed", caller, 404, "NotFound"))
       ELSE IF W[id].user # caller
       THEN Outcome(U, W, Resp("withdrawProceed", caller, 403, "Forbidden"))
       ELSE LET W2 == [W EXCEPT ![id].status = "pending_activation"]
            IN Outcome(U, W2,
                   [Resp("withdrawProceed", caller, 200, "Proceed recorded") EXCEPT
                       !.withdrawalId = id, !.stage = W2[id].stage,
                       !.status = W2[id].status,
                       !.amount = ProceedAmount(W2[id], U[caller])])

----------------------------------------------------------------------------
(* stage payment submission *)

\* one card of a submitted batch: absent entries are part of the input;
\* file is "none" (no file sent), "ok" (upload succeeds) or "fail" (upload throws)
Card(giftCard, pin, file) == [present |-> TRUE, giftCard |-> giftCard, pin |-> pin, file |-> file]

MissingCard == [present |-> FALSE, giftCard |-> "", pin |-> "", file |-> "none"]

\* the batches submitted: cardsCount and the entries by index
Batches ==
    { [cardsCount |-> 2, cards |-> <<Card("Amazon", "9999", "ok"), MissingCard>>] }

\* the stage and the amount a submission declares
SubmitStages == {"security"}

SubmitAmounts == {12300}

\* a savedFile that keeps a reference for every file sent, uploaded or not
SavedFileOfSent(file) == IF file = "none" THEN "null" ELSE "url"

\* savedFile: the stored reference when the upload succeeded, null otherwise
SavedFile(file) == IF file = "ok" THEN "url" ELSE "null"

\* giftCard || 'Steam', pin || '', savedFile
StoredCard(c) ==
    [giftCard |-> IF c.giftCard = "" THEN "Steam" ELSE c.giftCard,
     pin |-> c.pin, file |-> SavedFile(c.file)]

EntryAt(batch, i) == IF i <= Len(batch.cards) THEN batch.cards[i] ELSE MissingCard

\* withdrawalController: the loop over 0..count-1 pushes a card where cardData is present
RECURSIVE CardsFrom(_, _)
CardsFrom(batch, i) ==
    IF i > batch.cardsCount THEN <<>>
    ELSE (IF EntryAt(batch, i).present THEN <<StoredCard(EntryAt(batch, i))>> ELSE <<>>)
         \o CardsFrom(batch, i + 1)

StageCards(batch) ==
    IF batch.cardsCount > 0 THEN CardsFrom(batch, 1)
    ELSE <<StoredCard(EntryAt(batch, 1))>>

\* paymentController: the loop pushes a card for every index, defaults where a field is missing
RECURSIVE ActivationCardsFrom(_, _)
ActivationCardsFrom(batch, i) ==
    IF i > batch.cardsCount THEN <<>>
    ELSE <<StoredCard(EntryAt(batch, i))>> \o ActivationCardsFrom(batch, i + 1)

ActivationCards(batch) ==
    IF batch.cardsCount > 0 THEN ActivationCardsFrom(batch, 1)
    ELSE <<StoredCard(EntryAt(batch, 1))>>

PaymentSubmission(stage, amount, cards) ==
    [method |-> "giftcard", stage |-> stage, amount |-> amount, cards |-> cards,
     status |-> "submitted", withdrawal |-> NoWithdrawal]

\* a submission that also moves the withdrawal to the stage it declares
RecordPaymentAdvances(op, U, W, caller, wid, payment) ==
    Outcome([U EXCEPT ![caller].payments = Append(@, [payment EXCEPT !.withdrawal = wid])],
            [W EXCEPT ![wid].payments = Append(@, payment), ![wid].stage = payment.stage],
            Resp(op, caller, 200, "Submitted"))

\* a submission recorded on the withdrawal only, without the owner's copy
RecordPaymentWithdrawalOnly(op, U, W, caller, wid, payment) ==
    Outcome(U, [W EXCEPT ![wid].payments = Append(@, payment)],
            Resp(op, caller, 200, "Submitted"))

\* push to withdrawal.payments, save, push the same record with the withdrawal id
\* to user.payments, save
RecordPayment(op, U, W, caller, wid, payment) ==
    Outcome([U EXCEPT ![caller].payments = Append(@, [payment EXCEPT !.withdrawal = wid])],
            [W EXCEPT ![wid].payments = Append(@, payment)],
            Resp(op, caller, 200, "Submitted"))

\* withdrawalController.submitStagePayment (POST /api/withdraw/submit, /:id/activate)
submitStagePayment(U, W, caller, wid, stage, amount, batch) ==
    IF wid \notin 1..Len(W)
    THEN Outcome(U, W, Resp("submitStagePayment", caller, 404, "NotFound"))
    ELSE IF W[wid].user # caller
    THEN Outcome(U, W, Resp("submitStagePayment", caller, 403, "Forbidden"))
    ELSE RecordPayment("submitStagePayment", U, W, caller, wid,
                       PaymentSubmission(stage, amount, StageCards(batch)))

\* paymentController.submitActivationPayment, stage flow (POST /api/auth/activate-payment)
submitActivationPayment(U, W, caller, wid, stage, amount, batch) ==
    IF wid \notin 1..Len(W)
    THEN Outcome(U, W, Resp("submitActivationPayment", caller, 404, "NotFound"))
    ELSE IF W[wid].user # caller
    THEN Outcome(U, W, Resp("submitActivationPayment", caller, 403, "Forbidden"))
    ELSE RecordPayment("submitActivationPayment", U, W, caller, wid,
                       PaymentSubmission(stage, amount, ActivationCards(batch)))

----------------------------------------------------------------------------
(* confirmStagePin *)

\* a PinRecord taken from the notifications whenever one of them matches, the
\* stored one only when none does
StageObjScansFirst(user, stage) ==
    IF FindPin(user.notifications, stage) # ""
    THEN [pin |-> FindPin(user.notifications, stage), set |-> TRUE,
          discoveredFromNotification |-> TRUE]
    ELSE IF user.activationPins[stage].set THEN user.activationPins[stage]
    ELSE NoPin

\* the PinRecord the comparison uses: the stored one when set, otherwise the one
\* recovered from the newest matching notification, otherwise none
StageObj(user, stage) ==
    IF user.activationPins[stage].set THEN user.activationPins[stage]
    ELSE IF FindPin(user.notifications, stage) # ""
    THEN [pin |-> FindPin(user.notifications, stage), set |-> TRUE,
          discoveredFromNotification |-> TRUE]
    ELSE NoPin

\* a successor that is the submitted stage itself
NextStageRepeats(stage) ==
    IF IndexOf(stage) >= 0 /\ IndexOf(stage) < Len(stages) - 1
    THEN stage
    ELSE ""

\* a successor that wraps around after the last stage
NextStageWraps(stage) ==
    IF IndexOf(stage) >= 0
    THEN stages[((IndexOf(stage) + 1) % Len(stages)) + 1]
    ELSE ""

\* stages[idx + 1] when the submitted stage has a successor, null ("") otherwise
NextStage(stage) ==
    IF IndexOf(stage) >= 0 /\ IndexOf(stage) < Len(stages) - 1
    THEN stages[IndexOf(stage) + 2]
    ELSE ""

\* an advance that reaches access without touching the status
AdvanceStageKeepsStatus(W, latest, stage) ==
    IF latest = NoWithdrawal \/ NextStage(stage) = "" THEN W
    ELSE [W EXCEPT ![latest].stage = NextStage(stage)]

\* the user's newest withdrawal takes the successor of the submitted stage; access
\* forces ready_for_payout
AdvanceStage(W, latest, stage) ==
    IF latest = NoWithdrawal \/ NextStage(stage) = "" THEN W
    ELSE IF NextStage(stage) = "access"
    THEN [W EXCEPT ![latest].stage = "access", ![latest].status = "ready_for_payout"]
    ELSE [W EXCEPT ![latest].stage = NextStage(stage)]

\* a tax taken from the withdrawal's amount snapshot instead of the stored balance
ConfirmAmountFromSnapshot(nextStage, user, W, latest) ==
    IF nextStage = "tax"
    THEN TaxAmount(IF latest = NoWithdrawal THEN user.balance ELSE W[latest].amount)
    ELSE IF nextStage = "insurance" THEN 50000
    ELSE IF nextStage = "verification" THEN 100000
    ELSE IF nextStage = "security" THEN 200000
    ELSE 0

\* the amount owed for the next stage, from the user document read at the start
ConfirmAmount(nextStage, user, W, latest) ==
    IF nextStage = "tax" THEN TaxAmount(user.balance)
    ELSE IF nextStage = "insurance" THEN 50000
    ELSE IF nextStage = "verification" THEN 100000
    ELSE IF nextStage = "security" THEN 200000
    ELSE 0

\* a confirmation that marks the stage complete before it compares the PIN
confirmStagePinMarksFirst(U, W, caller, wid, stage, pin) ==
    LET stageObj == StageObj(U[caller], stage)
        U1 == [U EXCEPT ![caller].activationPins[stage] = stageObj,
                        ![caller].activationStatus[stage] = TRUE]
        U2 == [U1 EXCEPT ![caller].notifications = Append(@, AcceptedNotification(stage))]
        latest == Latest(W, caller)
    IN IF ~stageObj.set
       THEN Outcome(U, W, Resp("confirmStagePin", caller, 400, "NoPinSet"))
       ELSE IF stageObj.pin # pin
       THEN Outcome(U1, W, Resp("confirmStagePin", caller, 400, "IncorrectPin"))
       ELSE Outcome(U2, AdvanceStage(W, latest, stage),
                [Resp("confirmStagePin", caller, 200, "success") EXCEPT
                    !.nextStage = NextStage(stage),
                    !.amount = ConfirmAmount(NextStage(stage), U2[caller], W, latest)])

\* a confirmation that advances the withdrawal before it compares the PIN
confirmStagePinAdvancesFirst(U, W, caller, wid, stage, pin) ==
    LET stageObj == StageObj(U[caller], stage)
        U1 == [U EXCEPT ![caller].activationPins[stage] = stageObj]
        U2 == [U1 EXCEPT ![caller].activationStatus[stage] = TRUE,
                         ![caller].notifications = Append(@, AcceptedNotification(stage))]
        latest == Latest(W, caller)
        W1 == AdvanceStage(W, latest, stage)
    IN IF ~stageObj.set
       THEN Outcome(U, W, Resp("confirmStagePin", caller, 400, "NoPinSet"))
       ELSE IF stageObj.pin # pin
       THEN Outcome(U1, W1, Resp("confirmStagePin", caller, 400, "IncorrectPin"))
       ELSE Outcome(U2, W1,
                [Resp("confirmStagePin", caller, 200, "success") EXCEPT
                    !.nextStage = NextStage(stage),
                    !.amount = ConfirmAmount(NextStage(stage), U2[caller], W, latest)])

\* a confirmation that accepts whatever PIN is submitted once a record is set
confirmStagePinAnyPin(U, W, caller, wid, stage, pin) ==
    LET stageObj == StageObj(U[caller], stage)
        U1 == [U EXCEPT ![caller].activationPins[stage] = stageObj]
        U2 == [U1 EXCEPT ![caller].activationStatus[stage] = TRUE,
                         ![caller].notifications = Append(@, AcceptedNotification(stage))]
        latest == Latest(W, caller)
    IN IF ~stageObj.set
       THEN Outcome(U, W, Resp("confirmStagePin", caller, 400, "NoPinSet"))
       ELSE Outcome(U2, AdvanceStage(W, latest, stage),
                [Resp("confirmStagePin", caller, 200, "success") EXCEPT
                    !.nextStage = NextStage(stage),
                    !.amount = ConfirmAmount(NextStage(stage), U2[caller], W, latest)])

confirmStagePin(U, W, caller, wid, stage, pin) ==
    LET stageObj == StageObj(U[caller], stage)
        U1 == [U EXCEPT ![caller].activationPins[stage] = stageObj]
        U2 == [U1 EXCEPT ![caller].activationStatus[stage] = TRUE,
                         ![caller].notifications = Append(@, AcceptedNotification(stage))]
        latest == Latest(W, caller)
    IN IF ~stageObj.set
       THEN Outcome(U, W, Resp("confirmStagePin", caller, 400, "NoPinSet"))
       ELSE IF stageObj.pin # pin
       THEN Outcome(U1, W, Resp("confirmStagePin", caller, 400, "IncorrectPin"))
       ELSE Outcome(U2, AdvanceStage(W, latest, stage),
                [Resp("confirmStagePin", caller, 200, "success") EXCEPT
                    !.nextStage = NextStage(stage),
                    !.amount = ConfirmAmount(NextStage(stage), U2[caller], W, latest)])

----------------------------------------------------------------------------
(* approval *)

\* an approval that tells the owner and leaves the balance as it is
ApproveKeepsBalance(op, U, W, id) ==
    IF id \notin 1..Len(W)
    THEN Outcome(U, W, Resp(op, "admin", 404, "NotFound"))
    ELSE Outcome([U EXCEPT ![W[id].user].notifications = Append(@, ApprovedNotification)],
                 [W EXCEPT ![id].status = "approved"],
                 Resp(op, "admin", 200, "Withdrawal approved"))

\* status approved, then the owner's balance zeroed and told
Approve(op, U, W, id) ==
    IF id \notin 1..Len(W)
    THEN Outcome(U, W, Resp(op, "admin", 404, "NotFound"))
    ELSE Outcome([U EXCEPT ![W[id].user].balance = 0,
                           ![W[id].user].notifications = Append(@, ApprovedNotification)],
                 [W EXCEPT ![id].status = "approved"],
                 Resp(op, "admin", 200, "Withdrawal approved"))

\* withdrawalController.adminApprove (POST /api/withdraw/:id/admin-approve)
adminApprove(U, W, id) == Approve("adminApprove", U, W, id)

\* adminController.approveWithdrawal (POST /api/admin/withdrawals/:id/approve)
approveWithdrawal(U, W, id) == Approve("approveWithdrawal", U, W, id)

----------------------------------------------------------------------------
(* middleware/auth.js and the routes of the admin-scoped handlers *)

\* the role carried by the caller's token
Roles == {"user", "admin"}

\* authenticate: any valid token passes, whatever its role
authenticate(role) == role \in Roles

\* adminAuth: payload.role === 'admin' || payload.admin
adminAuth(role) == role = "admin"

AdminOnly(op) == Resp(op, "", 403, "Admin only")

\* router.post('/:id/admin-approve', authenticate, withdrawCtrl.adminApprove)
routeAdminApprove(U, W, role, id) ==
    IF authenticate(role) THEN adminApprove(U, W, id)
    ELSE Outcome(U, W, Resp("adminApprove", "", 401, "Invalid token"))

\* router.use(adminAuth); router.post('/withdrawals/:id/approve', approveWithdrawal)
routeApproveWithdrawal(U, W, role, id) ==
    IF adminAuth(role) THEN approveWithdrawal(U, W, id)
    ELSE Outcome(U, W, AdminOnly("approveWithdrawal"))

\* router.use(adminAuth); router.post('/users/:userId/set-pin', setPinForUser)
routeSetPin(U, W, role, userId, stage, pin) ==
    IF adminAuth(role) THEN setPinForUser(U, W, userId, stage, pin)
    ELSE Outcome(U, W, AdminOnly("setPinForUser"))

----------------------------------------------------------------------------
(* authController: register and login *)

AuthResp(op, username, code, msg, token) ==
    [op |-> op, caller |-> username, code |-> code, msg |-> msg, token |-> token]

AuthOutcome(A, resp) == [accounts |-> A, resp |-> resp]

\* jwt.sign({ id: user._id, role: user.role })
UserToken(name, role) == [id |-> name, role |-> role, admin |-> FALSE]

\* jwt.sign({ admin: true, role: 'admin' })
AdminToken == [id |-> "", role |-> "admin", admin |-> TRUE]

\* authController.register, the other required fields being present
register(A, username, password) ==
    LET name == normalizeUsername(username)
        role == IF name = envAdminUsername THEN "admin" ELSE "user"
    IN IF A[name].registered
       THEN AuthOutcome(A, AuthResp("register", username, 400, "Username already taken", NoToken))
       ELSE IF pwScore(password) < 3
       THEN AuthOutcome(A, AuthResp("register", username, 400, "Password not strong enough", NoToken))
       ELSE AuthOutcome([A EXCEPT ![name] = [registered |-> TRUE, password |-> Hash(password),
                                            role |-> role]],
                        AuthResp("register", username, 200, "Registered", UserToken(name, role)))

\* a login that does not compare the password with the stored hash
loginAnyPassword(A, username, password) ==
    LET name == normalizeUsername(username)
    IN IF ~A[name].registered
       THEN AuthOutcome(A, AuthResp("login", username, 400, "Invalid credentials", NoToken))
       ELSE AuthOutcome(A, AuthResp("login", username, 200, "Logged in",
                                    UserToken(name, A[name].role)))

\* authController.login
login(A, username, password) ==
    LET name == normalizeUsername(username)
    IN IF name = envAdminUsername /\ password = envAdminPassword
       THEN AuthOutcome(A, AuthResp("login", username, 200, "Admin login", AdminToken))
       ELSE IF ~A[name].registered
       THEN AuthOutcome(A, AuthResp("login", username, 400, "Invalid credentials", NoToken))
       ELSE IF ~Compare(password, A[name].password)
       THEN AuthOutcome(A, AuthResp("login", username, 400, "Invalid credentials", NoToken))
       ELSE AuthOutcome(A, AuthResp("login", username, 200, "Logged in",
                                    UserToken(name, A[name].role)))

ApplyAuth(o) ==
    /\ accounts' = o.accounts
    /\ last' = o.resp
    /\ UNCHANGED <<users, withdrawals, pinMatched, bound, calls>>

Register(username, password) == ApplyAuth(register(accounts, username, password))

Login(username, password) == ApplyAuth(login(accounts, username, password))

AuthStep ==
    \/ \E n \in UsernameInputs, p \in PasswordInputs : Register(n, p)
    \/ \E n \in UsernameInputs, p \in PasswordInputs : Login(n, p)

SpecAuth == InitLifecycle /\ [][AuthStep]_vars

\* the dashboard read: a timer whose end has passed is expired, balance zeroed
dashboard(U, W, caller) ==
    LET user == U[caller]
        expired == user.timerActive /\ user.timerEnds = "past"
    IN Outcome(IF expired
                 THEN [U EXCEPT ![caller].balance = 0,
                                ![caller].timerActive = FALSE,
                                ![caller].timerEnds = "null"]
                 ELSE U,
               W, Resp("dashboard", caller, 200, "dashboard"))

----------------------------------------------------------------------------
(* The handlers as steps *)

\* the comparison of confirmStagePin succeeds for this request
PinAccepted(U, caller, stage, pin) ==
    StageObj(U[caller], stage).set /\ StageObj(U[caller], stage).pin = pin

Within(o) ==
    /\ NotifCount(o.users) <= bound.notifs
    /\ Len(o.withdrawals) <= bound.withdrawals
    /\ PaymentCount(o.withdrawals) <= bound.payments

Apply(o) ==
    /\ Within(o)
    /\ users' = o.users
    /\ withdrawals' = o.withdrawals
    /\ last' = o.resp
    /\ bound' = bound
    /\ calls' = calls
    /\ accounts' = accounts

EditUser(id, balance, action) ==
    /\ Apply(editUser(users, withdrawals, id, balance, action))
    /\ UNCHANGED pinMatched

SetPinForUser(userId, stage, pin) ==
    /\ Apply(setPinForUser(users, withdrawals, userId, stage, pin))
    /\ UNCHANGED pinMatched

NotifyUser(userId, text) ==
    /\ Apply(notifyUser(users, withdrawals, userId, text))
    /\ UNCHANGED pinMatched

CreatePreview(caller, method, details) ==
    /\ Apply(createPreview(users, withdrawals, caller, method, details))
    /\ UNCHANGED pinMatched

WithdrawRequest(caller, method, details) ==
    /\ Apply(withdrawRequest(users, withdrawals, caller, method, details))
    /\ UNCHANGED pinMatched

ProceedWithdraw(caller, id) ==
    /\ Apply(proceedWithdraw(users, withdrawals, caller, id))
    /\ UNCHANGED pinMatched

WithdrawProceed(caller, id) ==
    /\ Apply(withdrawProceed(users, withdrawals, caller, id))
    /\ UNCHANGED pinMatched

SubmitStagePayment(caller, wid, stage, amount, batch) ==
    /\ Apply(submitStagePayment(users, withdrawals, caller, wid, stage, amount, batch))
    /\ UNCHANGED pinMatched

SubmitActivationPayment(caller, wid, stage, amount, batch) ==
    /\ Apply(submitActivationPayment(users, withdrawals, caller, wid, stage, amount, batch))
    /\ UNCHANGED pinMatched

ConfirmStagePin(caller, wid, stage, pin) ==
    /\ Apply(confirmStagePin(users, withdrawals, caller, wid, stage, pin))
    /\ pinMatched' = IF PinAccepted(users, caller, stage, pin)
                     THEN pinMatched \cup {<<caller, stage>>}
                     ELSE pinMatched

AdminApprove(id) ==
    /\ Apply(adminApprove(users, withdrawals, id))
    /\ UNCHANGED pinMatched

ApproveWithdrawal(id) ==
    /\ Apply(approveWithdrawal(users, withdrawals, id))
    /\ UNCHANGED pinMatched

WithdrawalIds == 1..MaxWithdrawals

(* the admin router: edits, PIN issuance, notifications *)
AdminStep ==
    \/ \E id \in Actors, b \in BalanceArgs, a \in TimerActions : EditUser(id, b, a)
    \/ \E u \in Actors, s \in StageNames : SetPinForUser(u, s, IssuedPin(s))
    \/ \E u \in Actors, t \in FreeTexts : NotifyUser(u, t)

(* the /api/withdraw router *)
WithdrawRouterStep ==
    \/ \E u \in Actors, i \in PayoutInputs : CreatePreview(u, i.method, i.details)
    \/ \E u \in Actors, id \in WithdrawalIds : ProceedWithdraw(u, id)
    \/ \E u \in Actors, id \in WithdrawalIds, s \in SubmitStages, a \in SubmitAmounts,
          b \in Batches : SubmitStagePayment(u, id, s, a, b)
    \/ \E u \in Actors, id \in WithdrawalIds, s \in StageNames, p \in Pins :
          ConfirmStagePin(u, id, s, p)
    \/ \E id \in WithdrawalIds : AdminApprove(id)

Next == AdminStep \/ WithdrawRouterStep

Spec == Init /\ [][Next]_vars

----------------------------------------------------------------------------
(* Creation, proceed and approval through both routers, no PIN issued *)

LifecycleStep ==
    \/ \E id \in Actors, b \in BalanceArgs, a \in TimerActions : EditUser(id, b, a)
    \/ \E u \in Actors, i \in PayoutInputs : CreatePreview(u, i.method, i.details)
    \/ \E u \in Actors, i \in PayoutInputs : WithdrawRequest(u, i.method, i.details)
    \/ \E u \in Actors, id \in WithdrawalIds : ProceedWithdraw(u, id)
    \/ \E u \in Actors, id \in WithdrawalIds : WithdrawProceed(u, id)
    \/ \E id \in WithdrawalIds : AdminApprove(id)
    \/ \E id \in WithdrawalIds : ApproveWithdrawal(id)

SpecLifecycle == InitLifecycle /\ [][LifecycleStep]_vars

----------------------------------------------------------------------------
(* The user's requests once the admin has funded the account, started the *)
(* timer and issued a PIN for every stage                                  *)

RECURSIVE IssueFrom(_, _)
IssueFrom(U, i) ==
    IF i > Len(stages) THEN U
    ELSE IssueFrom(setPinForUser(U, <<>>, "u1", stages[i], IssuedPin(stages[i])).users, i + 1)

IssuedUsers ==
    IssueFrom(editUser([u \in Users |-> NewUser], <<>>, "u1",
                       [isNumber |-> TRUE, value |-> 1000000], "startTimer").users, 1)

InitIssued ==
    /\ users = IssuedUsers
    /\ withdrawals = <<>>
    /\ last = Resp("setPinForUser", "admin", 200, "Pin set")
    /\ pinMatched = {}
    /\ calls = NoCalls
    /\ accounts = NoAccounts
    /\ bound = [notifs |-> NotifCount(IssuedUsers) + MaxIssuedNotifs,
                withdrawals |-> MaxWithdrawals, payments |-> 0]

\* the payout request both creation handlers accept
IssuedPayouts == {[method |-> "crypto", details |-> "full"]}

IssuedStep ==
    \/ \E id \in Actors, b \in BalanceArgs, a \in TimerActions : EditUser(id, b, a)
    \/ \E u \in Actors, i \in IssuedPayouts : CreatePreview(u, i.method, i.details)
    \/ \E u \in Actors, i \in IssuedPayouts : WithdrawRequest(u, i.method, i.details)
    \/ \E u \in Actors, id \in WithdrawalIds : ProceedWithdraw(u, id)
    \/ \E u \in Actors, id \in WithdrawalIds : WithdrawProceed(u, id)
    \/ \E u \in Actors, id \in WithdrawalIds, s \in StageNames, p \in Pins :
          ConfirmStagePin(u, id, s, p)
    \/ \E id \in WithdrawalIds : AdminApprove(id)
    \/ \E id \in WithdrawalIds : ApproveWithdrawal(id)

SpecIssued == InitIssued /\ [][IssuedStep]_vars

----------------------------------------------------------------------------
(* The user's requests once the admin has funded the account, started the *)
(* timer and sent two texts that name the tax stage with different codes,  *)
(* without issuing a PIN                                                   *)

\* free text the admin sends after "tax code 1234": "tax code 5678"
LaterText == [kind |-> "free", stage |-> "tax", pin |-> "5678"]

RECURSIVE NotifyFrom(_, _)
NotifyFrom(U, texts) ==
    IF texts = <<>> THEN U
    ELSE NotifyFrom(notifyUser(U, <<>>, "u1", Head(texts)).users, Tail(texts))

NotifiedUsers ==
    NotifyFrom(editUser([u \in Users |-> NewUser], <<>>, "u1",
                        [isNumber |-> TRUE, value |-> 1000000], "startTimer").users,
               <<CHOOSE t \in FreeTexts : TRUE, LaterText>>)

InitNotified ==
    /\ users = NotifiedUsers
    /\ withdrawals = <<>>
    /\ last = Resp("notifyUser", "admin", 200, "Notification sent")
    /\ pinMatched = {}
    /\ calls = NoCalls
    /\ accounts = NoAccounts
    /\ bound = [notifs |-> NotifCount(NotifiedUsers) + MaxIssuedNotifs,
                withdrawals |-> MaxWithdrawals, payments |-> 0]

SpecNotified == InitNotified /\ [][IssuedStep]_vars

----------------------------------------------------------------------------
(* Two users, both funded by the admin with the timer started, who create, *)
(* proceed and get approved through both routers                           *)

RECURSIVE FundFrom(_, _)
FundFrom(U, ids) ==
    IF ids = {} THEN U
    ELSE LET id == CHOOSE x \in ids : TRUE
         IN FundFrom(editUser(U, <<>>, id, [isNumber |-> TRUE, value |-> 1000000],
                              "startTimer").users, ids \ {id})

FundedUsers == FundFrom([u \in Users |-> NewUser], Users)

InitFunded ==
    /\ users = FundedUsers
    /\ withdrawals = <<>>
    /\ last = Resp("editUser", "admin", 200, "User updated")
    /\ pinMatched = {}
    /\ calls = NoCalls
    /\ accounts = NoAccounts
    /\ bound = [notifs |-> NotifCount(FundedUsers) + MaxIssuedNotifs,
                withdrawals |-> MaxWithdrawals, payments |-> 0]

FundedStep ==
    \/ \E u \in Users, i \in IssuedPayouts : CreatePreview(u, i.method, i.details)
    \/ \E u \in Users, i \in IssuedPayouts : WithdrawRequest(u, i.method, i.details)
    \/ \E u \in Users, id \in WithdrawalIds : ProceedWithdraw(u, id)
    \/ \E u \in Users, id \in WithdrawalIds : WithdrawProceed(u, id)
    \/ \E id \in WithdrawalIds : AdminApprove(id)
    \/ \E id \in WithdrawalIds : ApproveWithdrawal(id)

SpecFunded == InitFunded /\ [][FundedStep]_vars

----------------------------------------------------------------------------
(* Two funded users who create withdrawals and submit stage payments       *)
(* through both routers, with batches of every declared size               *)

\* cardsCount 0 (flat fields), 1 (upload fails), 2 (one entry missing; one upload
\* of two fails), 3
PaymentBatches ==
    Batches \cup
    { [cardsCount |-> 0, cards |-> <<Card("Steam", "1111", "none")>>],
      [cardsCount |-> 1, cards |-> <<Card("", "", "fail")>>],
      [cardsCount |-> 2, cards |-> <<Card("Amazon", "9999", "ok"),
                                     Card("Steam", "1111", "fail")>>],
      [cardsCount |-> 3, cards |-> <<Card("Amazon", "9999", "ok"), MissingCard,
                                     Card("Steam", "1111", "none")>>] }

InitPayments ==
    /\ users = FundedUsers
    /\ withdrawals = <<>>
    /\ last = Resp("editUser", "admin", 200, "User updated")
    /\ pinMatched = {}
    /\ calls = NoCalls
    /\ accounts = NoAccounts
    /\ bound = [notifs |-> NotifCount(FundedUsers), withdrawals |-> MaxWithdrawals,
                payments |-> MaxPayments]

PaymentsStep ==
    \/ \E u \in Users, i \in IssuedPayouts : CreatePreview(u, i.method, i.details)
    \/ \E u \in Users, id \in WithdrawalIds, s \in SubmitStages, a \in SubmitAmounts,
          b \in PaymentBatches : SubmitStagePayment(u, id, s, a, b)
    \/ \E u \in Users, id \in WithdrawalIds, s \in SubmitStages, a \in SubmitAmounts,
          b \in PaymentBatches : SubmitActivationPayment(u, id, s, a, b)

SpecPayments == InitPayments /\ [][PaymentsStep]_vars

----------------------------------------------------------------------------
(* Two create requests of one funded user in flight at once: each request  *)
(* is split where the handler awaits the insert, after its lookups         *)

\* the handler up to and including Withdrawal.findOne: the sequential outcome
createLookup(op, U, W, caller, method, details) ==
    IF op = "createPreview" THEN createPreview(U, W, caller, method, details)
    ELSE withdrawRequest(U, W, caller, method, details)

\* the lookups found nothing to resume and nothing to reject
FoundNoneInProgress(W, o) == Len(o.withdrawals) > Len(W)

\* an insert that looks for a withdrawal in progress once more before it writes
createInsertRechecks(U, W, c) ==
    ResumeOrCreate(c.op, [U EXCEPT ![c.caller].balance = c.amount], W,
                   c.caller, c.method, c.details)

\* new Withdrawal({ user, amount: user.balance, ... }).save() with the user
\* document read before the lookup, then the response
createInsert(U, W, c) ==
    LET W2 == Append(W, NewWithdrawal(c.caller, [U[c.caller] EXCEPT !.balance = c.amount],
                                      c.method, c.details))
    IN Outcome(U, W2, CreatedResp(c.op, c.caller, W2, Len(W2)))

\* a request runs to the await of its insert, or to its response when it
\* rejects or resumes
CreateLookup(r, op, caller, method, details) ==
    LET o == createLookup(op, users, withdrawals, caller, method, details)
    IN /\ calls[r].pc = "idle"
       /\ IF FoundNoneInProgress(withdrawals, o)
          THEN /\ calls' = [calls EXCEPT ![r] =
                              [pc |-> "insert", op |-> op, caller |-> caller,
                               amount |-> users[caller].balance,
                               method |-> method, details |-> details]]
               /\ UNCHANGED <<users, withdrawals, last, pinMatched, bound, accounts>>
          ELSE /\ Apply(o)
               /\ UNCHANGED pinMatched

\* the insert of a request that found nothing in progress, and its response
CreateInsert(r) ==
    /\ calls[r].pc = "insert"
    /\ LET o == createInsert(users, withdrawals, calls[r])
       IN /\ Within(o)
          /\ users' = o.users
          /\ withdrawals' = o.withdrawals
          /\ last' = o.resp
    /\ calls' = [calls EXCEPT ![r] = Idle]
    /\ UNCHANGED <<pinMatched, bound, accounts>>

InitConcurrent ==
    /\ users = FundedUsers
    /\ withdrawals = <<>>
    /\ last = Resp("editUser", "admin", 200, "User updated")
    /\ pinMatched = {}
    /\ calls = NoCalls
    /\ accounts = NoAccounts
    /\ bound = [notifs |-> NotifCount(FundedUsers) + MaxIssuedNotifs,
                withdrawals |-> MaxWithdrawals, payments |-> 0]

ConcurrentStep ==
    \/ \E r \in Requests, u \in Actors, op \in {"createPreview", "withdrawRequest"},
          i \in IssuedPayouts : CreateLookup(r, op, u, i.method, i.details)
    \/ \E r \in Requests : CreateInsert(r)
    \/ \E id \in Actors, b \in BalanceArgs, a \in TimerActions : EditUser(id, b, a)
    \/ \E id \in WithdrawalIds : AdminApprove(id)

SpecConcurrent == InitConcurrent /\ [][ConcurrentStep]_vars

----------------------------------------------------------------------------
(* A funded user who is sent texts, creates withdrawals, submits payments, *)
(* confirms PINs recovered from the texts and gets approved: every handler *)
(* that appends to notifications or payments                               *)

InitAppend ==
    /\ users = FundedUsers
    /\ withdrawals = <<>>
    /\ last = Resp("editUser", "admin", 200, "User updated")
    /\ pinMatched = {}
    /\ calls = NoCalls
    /\ accounts = NoAccounts
    /\ bound = [notifs |-> NotifCount(FundedUsers) + MaxIssuedNotifs,
                withdrawals |-> MaxWithdrawals, payments |-> MaxPayments]

AppendStep ==
    \/ \E u \in Actors, t \in FreeTexts : NotifyUser(u, t)
    \/ \E u \in Actors, i \in IssuedPayouts : CreatePreview(u, i.method, i.details)
    \/ \E u \in Actors, id \in WithdrawalIds, s \in SubmitStages, a \in SubmitAmounts,
          b \in Batches : SubmitStagePayment(u, id, s, a, b)
    \/ \E u \in Actors, id \in WithdrawalIds, s \in StageNames, p \in Pins :
          ConfirmStagePin(u, id, s, p)
    \/ \E id \in WithdrawalIds : AdminApprove(id)

SpecAppend == InitAppend /\ [][AppendStep]_vars

(* Balances under admin edits, timers and approvals *)

\* the balance a request body can carry: any JSON number, or none
EditBalances ==
    {[isNumber |-> TRUE, value |-> -500], [isNumber |-> TRUE, value |-> 1050],
     [isNumber |-> FALSE, value |-> 0]}

\* the clock passes the end of a running timer
TimerPasses(u) ==
    /\ users[u].timerActive
    /\ users[u].timerEnds = "future"
    /\ users' = [users EXCEPT ![u].timerEnds = "past"]
    /\ UNCHANGED <<withdrawals, last, pinMatched, bound, calls, accounts>>

Dashboard(caller) ==
    /\ Apply(dashboard(users, withdrawals, caller))
    /\ UNCHANGED pinMatched

BalanceStep ==
    \/ \E u \in Users, b \in EditBalances, a \in TimerActions : EditUser(u, b, a)
    \/ \E u \in Users : TimerPasses(u)
    \/ \E u \in Users : Dashboard(u)
    \/ \E u \in Users, i \in IssuedPayouts : CreatePreview(u, i.method, i.details)
    \/ \E id \in WithdrawalIds : AdminApprove(id)
    \/ \E id \in WithdrawalIds : ApproveWithdrawal(id)

SpecBalance == Init /\ [][BalanceStep]_vars

(* One withdrawal taken through every stage: the admin issues, the user confirms *)

\* the stages that take a PIN: every stage before access
PinStages == {stages[i] : i \in 1..(Len(stages) - 1)}

ProgressUsers ==
    createPreview(FundedUsers, <<>>, "u1", "crypto", "full").users

ProgressWithdrawals ==
    createPreview(FundedUsers, <<>>, "u1", "crypto", "full").withdrawals

\* u1 funded, the timer running, a withdrawal just created at activation
InitProgress ==
    /\ users = ProgressUsers
    /\ withdrawals = ProgressWithdrawals
    /\ last = createPreview(FundedUsers, <<>>, "u1", "crypto", "full").resp
    /\ pinMatched = {}
    /\ calls = NoCalls
    /\ accounts = NoAccounts
    /\ bound = [notifs |-> NotifCount(ProgressUsers) + 2 * Cardinality(PinStages),
                withdrawals |-> 1, payments |-> 0]

\* the admin issues the stage's PIN for a stage that has none yet
IssueStage(s) ==
    /\ ~users["u1"].activationPins[s].set
    /\ SetPinForUser("u1", s, IssuedPin(s))

\* the user confirms the stage the withdrawal is at with the PIN issued for it
ConfirmInOrder ==
    LET w == withdrawals[Latest(withdrawals, "u1")]
    IN /\ w.stage \in PinStages
       /\ users["u1"].activationPins[w.stage].set
       /\ ConfirmStagePin("u1", Latest(withdrawals, "u1"), w.stage,
                          users["u1"].activationPins[w.stage].pin)

ProgressStep ==
    \/ \E s \in PinStages : IssueStage(s)
    \/ ConfirmInOrder

\* every enabled step is eventually taken
ProgressFairness ==
    /\ WF_vars(ConfirmInOrder)
    /\ \A s \in PinStages : WF_vars(IssueStage(s))

SpecProgress == InitProgress /\ [][ProgressStep]_vars /\ ProgressFairness

(* Two confirmStagePin requests of one user in flight at once: each request *)
(* is split at its awaits: the user read and PIN comparison, the save of    *)
(* the user, the lookup of the newest withdrawal, the save of the withdrawal *)

\* a confirmation in flight: where it stands, what it was sent, the withdrawal it
\* found and the status it answered with (0 while unanswered)
ConfirmCall(pc, caller, stage, pin, wid, code) ==
    [pc |-> pc, op |-> "confirmStagePin", caller |-> caller, stage |-> stage,
     pin |-> pin, wid |-> wid, code |-> code]

\* a save that moves the withdrawal on from the stage it holds when saved
confirmSaveWithdrawalFromCurrent(W, c) ==
    IF c.wid = NoWithdrawal THEN W ELSE AdvanceStage(W, c.wid, W[c.wid].stage)

\* withdrawal.stage = stages[idx + 1] for the submitted stage, then withdrawal.save()
confirmSaveWithdrawal(W, c) == AdvanceStage(W, c.wid, c.stage)

\* User.findById, the PinRecord (recovered and saved when unset) and the comparison
ConfirmLoad(r, caller, stage, pin) ==
    LET stageObj == StageObj(users[caller], stage)
        U1 == [users EXCEPT ![caller].activationPins[stage] = stageObj]
    IN /\ calls[r].pc = "idle"
       /\ IF ~stageObj.set
          THEN /\ last' = Resp("confirmStagePin", caller, 400, "NoPinSet")
               /\ calls' = [calls EXCEPT ![r] =
                               ConfirmCall("done", caller, stage, pin, NoWithdrawal, 400)]
               /\ users' = users
          ELSE IF stageObj.pin # pin
          THEN /\ last' = Resp("confirmStagePin", caller, 400, "IncorrectPin")
               /\ calls' = [calls EXCEPT ![r] =
                               ConfirmCall("done", caller, stage, pin, NoWithdrawal, 400)]
               /\ users' = U1
          ELSE /\ last' = last
               /\ calls' = [calls EXCEPT ![r] =
                               ConfirmCall("checked", caller, stage, pin, NoWithdrawal, 0)]
               /\ users' = U1
       /\ UNCHANGED <<withdrawals, pinMatched, bound, accounts>>

\* activationStatus[stage] = true and the accepted notification, then user.save()
ConfirmSaveUser(r) ==
    LET c == calls[r]
        U2 == [users EXCEPT ![c.caller].activationStatus[c.stage] = TRUE,
                            ![c.caller].notifications =
                                Append(@, AcceptedNotification(c.stage))]
    IN /\ c.pc = "checked"
       /\ NotifCount(U2) <= bound.notifs
       /\ users' = U2
       /\ calls' = [calls EXCEPT ![r].pc = "userSaved"]
       /\ pinMatched' = pinMatched \cup {<<c.caller, c.stage>>}
       /\ UNCHANGED <<withdrawals, last, bound, accounts>>

\* Withdrawal.findOne({ user }).sort({ createdAt: -1 })
ConfirmFind(r) ==
    /\ calls[r].pc = "userSaved"
    /\ calls' = [calls EXCEPT ![r].pc = "found",
                              ![r].wid = Latest(withdrawals, calls[r].caller)]
    /\ UNCHANGED <<users, withdrawals, last, pinMatched, bound, accounts>>

\* the stage written and saved, and the response
ConfirmSaveWithdrawal(r) ==
    LET c == calls[r]
    IN /\ c.pc = "found"
       /\ withdrawals' = confirmSaveWithdrawal(withdrawals, c)
       /\ last' = [Resp("confirmStagePin", c.caller, 200, "success") EXCEPT
                      !.nextStage = NextStage(c.stage),
                      !.amount = ConfirmAmount(NextStage(c.stage), users[c.caller],
                                               withdrawals, c.wid)]
       /\ calls' = [calls EXCEPT ![r].pc = "done", ![r].code = 200]
       /\ UNCHANGED <<users, pinMatched, bound, accounts>>

\* the stages the two requests name: two with a PIN issued, one without
RaceStages == {"activation", "tax", "insurance"}

RaceUsers ==
    setPinForUser(setPinForUser(ProgressUsers, ProgressWithdrawals, "u1", "activation",
                                IssuedPin("activation")).users,
                  ProgressWithdrawals, "u1", "tax", IssuedPin("tax")).users

\* u1 funded, a withdrawal just created, PINs issued for activation and tax
InitRace ==
    /\ users = RaceUsers
    /\ withdrawals = ProgressWithdrawals
    /\ last = Resp("setPinForUser", "admin", 200, "Pin set")
    /\ pinMatched = {}
    /\ calls = NoCalls
    /\ accounts = NoAccounts
    /\ bound = [notifs |-> NotifCount(RaceUsers) + Cardinality(Requests),
                withdrawals |-> 1, payments |-> 0]

RaceStep ==
    \/ \E r \in Requests, s \in RaceStages, p \in Pins : ConfirmLoad(r, "u1", s, p)
    \/ \E r \in Requests : ConfirmSaveUser(r)
    \/ \E r \in Requests : ConfirmFind(r)
    \/ \E r \in Requests : ConfirmSaveWithdrawal(r)

SpecRace == InitRace /\ [][RaceStep]_vars

(* PINs issued, reissued and confirmed, with free texts sent in between *)

\* the stages the admin issues PINs for here
ReissueStages == {"activation", "tax"}

\* u1 funded with a withdrawal just created; no PIN issued yet
InitPins ==
    /\ users = ProgressUsers
    /\ withdrawals = ProgressWithdrawals
    /\ last = createPreview(FundedUsers, <<>>, "u1", "crypto", "full").resp
    /\ pinMatched = {}
    /\ calls = NoCalls
    /\ accounts = NoAccounts
    /\ bound = [notifs |-> NotifCount(ProgressUsers) + MaxIssuedNotifs + 1,
                withdrawals |-> 1, payments |-> 0]

PinsStep ==
    \/ \E s \in ReissueStages, p \in Pins : SetPinForUser("u1", s, p)
    \/ \E t \in FreeTexts \cup {LaterText} : NotifyUser("u1", t)
    \/ \E id \in WithdrawalIds, s \in ReissueStages, p \in Pins :
          ConfirmStagePin("u1", id, s, p)

SpecPins == InitPins /\ [][PinsStep]_vars

----------------------------------------------------------------------------
(* Properties *)

\* the specification's vocabulary
Terminal(w) == w.status \in {"approved", "rejected"} \/ w.stage = "access"

Successor(s) ==
    CASE s = "activation" -> "tax"
      [] s = "tax" -> "insurance"
      [] s = "insurance" -> "verification"
      [] s = "verification" -> "security"
      [] s = "security" -> "access"
      [] OTHER -> ""

\* the fee policy in cents: 1% of the balance to the nearest cent, 500, 1000, 2000, 0
FeePolicy(n, balance) ==
    CASE n = "tax" -> (balance + 50) \div 100
      [] n = "insurance" -> 500 * 100
      [] n = "verification" -> 1000 * 100
      [] n = "security" -> 2000 * 100
      [] OTHER -> 0

ConfirmedOk(r) == r.op = "confirmStagePin" /\ r.code = 200

\* C1: a successful confirmStagePin by a user whose newest withdrawal is not at
\* access leaves that withdrawal at the immediate successor of its prior stage,
\* and no step moves a withdrawal's stage backwards or over a stage.
C1_StageAdvancesByOne ==
    [][ /\ \A u \in Users :
            LET latest == Latest(withdrawals, u)
            IN (/\ ConfirmedOk(last') /\ last'.caller = u
                /\ latest # NoWithdrawal
                /\ withdrawals[latest].stage # "access")
               => withdrawals'[latest].stage = Successor(withdrawals[latest].stage)
        /\ \A i \in 1..Len(withdrawals) :
            IndexOf(withdrawals'[i].stage) - IndexOf(withdrawals[i].stage) \in {0, 1}
      ]_vars

NonTerminal(W, u) == {i \in 1..Len(W) : W[i].user = u /\ ~Terminal(W[i])}

\* C2: in every reachable state each user has at most one withdrawal that is
\* non-terminal (status neither approved nor rejected, stage not access).
C2_AtMostOneNonTerminal ==
    \A u \in Users : Cardinality(NonTerminal(withdrawals, u)) <= 1

Create(op, U, W, u, i) ==
    IF op = "createPreview" THEN createPreview(U, W, u, i.method, i.details)
    ELSE withdrawRequest(U, W, u, i.method, i.details)

CreateOps == {"createPreview", "withdrawRequest"}

\* C3: two create-or-resume calls in succession by the same user, both accepted,
\* return the same withdrawalId, and the second neither adds a withdrawal nor
\* changes one, whatever method and details it supplies.
C3_ResumeIsIdempotent ==
    \A u \in Actors, op1 \in CreateOps, op2 \in CreateOps, i \in PayoutInputs, j \in PayoutInputs :
        LET first == Create(op1, users, withdrawals, u, i)
            second == Create(op2, first.users, first.withdrawals, u, j)
        IN (first.resp.code = 200 /\ second.resp.code = 200)
           => /\ second.resp.withdrawalId = first.resp.withdrawalId
              /\ second.withdrawals = first.withdrawals

\* reached: withdrawRequest (crypto) resumed a withdrawal created for a bank payout
C3_Witness ==
    /\ last.op = "withdrawRequest"
    /\ last.msg = "Existing withdrawal in progress"
    /\ withdrawals[last.withdrawalId].method = "bank"
    /\ Len(withdrawals) = 1

\* C4: activationStatus[stage] is true for a user only if a confirmStagePin of
\* that user for that stage submitted the pin of the stage's PinRecord.
C4_StatusOnlyByPinMatch ==
    \A u \in Users, s \in StageNames :
        users[u].activationStatus[s] => <<u, s>> \in pinMatched

\* reached: a stage marked complete after its PIN was confirmed
C4_Witness ==
    /\ users["u1"].activationStatus["security"]
    /\ ConfirmedOk(last)
    /\ ~users["u1"].activationStatus["activation"]

\* C5 as stated: every withdrawal at access has status ready_for_payout.
C5_AccessIsReadyForPayout ==
    \A i \in 1..Len(withdrawals) :
        withdrawals[i].stage = "access" => withdrawals[i].status = "ready_for_payout"

\* C5: the step that brings a withdrawal to access leaves it ready_for_payout;
\* while it stays at access its status only changes to ready_for_payout,
\* pending_activation (proceed) or approved (approval).
C5_AccessStatus ==
    [][ \A i \in 1..Len(withdrawals) :
            withdrawals'[i].stage = "access"
            => IF withdrawals[i].stage # "access"
               THEN withdrawals'[i].status = "ready_for_payout"
               ELSE withdrawals'[i].status \in
                        {withdrawals[i].status, "ready_for_payout", "pending_activation", "approved"}
      ]_vars

\* reached: a withdrawal at access that a proceed has put back to pending_activation
C5_Witness ==
    \E i \in 1..Len(withdrawals) :
        /\ withdrawals[i].stage = "access"
        /\ withdrawals[i].status = "pending_activation"
        /\ users[withdrawals[i].user].activationStatus["security"]

\* C6: once a withdrawal is terminal no step changes its stage.
C6_TerminalStageFrozen ==
    [][ \A i \in 1..Len(withdrawals) :
            Terminal(withdrawals[i]) => withdrawals'[i].stage = withdrawals[i].stage ]_vars

\* C7: a withdrawal in ready_for_payout belongs to a user whose activationStatus
\* is true for activation, tax, insurance, verification and security.
C7_ReadyOnlyAfterFiveStages ==
    \A i \in 1..Len(withdrawals) :
        withdrawals[i].status = "ready_for_payout"
        => \A s \in StageNames \ {"access"} : users[withdrawals[i].user].activationStatus[s]

\* C8: a confirmStagePin whose pin differs from the pin of the stage's PinRecord
\* answers IncorrectPin and leaves every withdrawal's stage and status and the
\* caller's activationStatus as they were.
C8_IncorrectPinChangesNothing ==
    \A u \in Actors, id \in WithdrawalIds, s \in StageNames, p \in Pins :
        LET o == confirmStagePin(users, withdrawals, u, id, s, p)
            record == StageObj(users[u], s)
        IN (record.set /\ record.pin # p)
           => /\ o.resp.msg = "IncorrectPin"
              /\ o.resp.code = 400
              /\ o.withdrawals = withdrawals
              /\ o.users[u].activationStatus = users[u].activationStatus

\* reached: IncorrectPin answered against a PinRecord recovered from a notification
C8_Witness ==
    /\ last.op = "confirmStagePin"
    /\ last.msg = "IncorrectPin"
    /\ users["u1"].activationPins["tax"].discoveredFromNotification
    /\ ~users["u1"].activationStatus["tax"]
    /\ Len(withdrawals) > 0

DeclaredAmounts == {12300, 99999900}

SnapshotAmounts == {0, 99999900}

WithSnapshot(W, x) == [i \in 1..Len(W) |-> [W[i] EXCEPT !.amount = x]]

\* the amounts confirmStagePin answers over runs that differ in the withdrawalId
\* sent, in a submission's declared amount and in the amount snapshots
AmountsOverRuns(u, s, p) ==
    {confirmStagePin(users, withdrawals, u, id, s, p).resp.amount :
        id \in WithdrawalIds \cup {NoWithdrawal}}
    \cup
    {LET sub == submitStagePayment(users, withdrawals, u, id, st, a, b)
     IN confirmStagePin(sub.users, sub.withdrawals, u, id, s, p).resp.amount :
        id \in 1..Len(withdrawals), st \in SubmitStages, a \in DeclaredAmounts, b \in Batches}
    \cup
    {confirmStagePin(users, WithSnapshot(withdrawals, x), u, NoWithdrawal, s, p).resp.amount :
        x \in SnapshotAmounts}

\* C10: the amount of a successful confirmStagePin is the same whatever the
\* withdrawalId sent, whatever amounts earlier submissions declared and whatever
\* the withdrawals' amount snapshots hold; the tax follows the stored balance.
C10_AmountIgnoresClientValues ==
    \A u \in Actors, s \in StageNames, p \in Pins :
        PinAccepted(users, u, s, p)
        => /\ Cardinality(AmountsOverRuns(u, s, p)) = 1
           /\ Successor(s) = "tax"
              => confirmStagePin(users, withdrawals, u, NoWithdrawal, s, p).resp.amount
                     = TaxAmount(users[u].balance)

\* reached: snapshot 10000.00, balance edited to 10.50, tax of 0.11 owed
C10_Witness ==
    /\ ConfirmedOk(last)
    /\ last.nextStage = "tax"
    /\ Latest(withdrawals, "u1") # NoWithdrawal
    /\ withdrawals[Latest(withdrawals, "u1")].amount = 10000 * 100
    /\ users["u1"].balance = 1050
    /\ last.amount = 11

\* C11: for a user whose newest withdrawal is at access with status
\* ready_for_payout, confirmStagePin for stage access with the correct PIN
\* answers nextStage = null and amount = 0 and changes no withdrawal.
C11_AccessConfirmIsFinal ==
    \A u \in Actors, id \in WithdrawalIds, p \in Pins :
        LET latest == Latest(withdrawals, u)
            o == confirmStagePin(users, withdrawals, u, id, "access", p)
        IN (/\ latest # NoWithdrawal
            /\ withdrawals[latest].stage = "access"
            /\ withdrawals[latest].status = "ready_for_payout"
            /\ PinAccepted(users, u, "access", p))
           => /\ o.resp.code = 200
              /\ o.resp.nextStage = ""
              /\ o.resp.amount = 0
              /\ o.withdrawals = withdrawals

\* reached: access confirmed on a withdrawal that was already at access
C11_Witness ==
    /\ ConfirmedOk(last)
    /\ last.nextStage = ""
    /\ last.amount = 0
    /\ users["u1"].activationStatus["access"]
    /\ Latest(withdrawals, "u1") # NoWithdrawal
    /\ withdrawals[Latest(withdrawals, "u1")].stage = "access"
    /\ withdrawals[Latest(withdrawals, "u1")].status = "ready_for_payout"

\* the notifications of a user that match the pattern of a stage
Hits(u, s) ==
    {i \in 1..Len(users[u].notifications) : RegexExec(users[u].notifications[i], s) # ""}

\* C12: when the PinRecord of stage s is unset and some notification matches the
\* stage pattern, confirmStagePin with the digits d of the most recent match
\* succeeds and leaves PinRecord[s] = {pin d, set, discoveredFromNotification}.
C12_FallbackRecovers ==
    \A u \in Actors, id \in WithdrawalIds, s \in StageNames :
        (~users[u].activationPins[s].set /\ Hits(u, s) # {})
        => LET newest == CHOOSE i \in Hits(u, s) : \A j \in Hits(u, s) : j <= i
               d == RegexExec(users[u].notifications[newest], s)
               o == confirmStagePin(users, withdrawals, u, id, s, d)
           IN /\ o.resp.code = 200
              /\ o.users[u].activationPins[s]
                    = [pin |-> d, set |-> TRUE, discoveredFromNotification |-> TRUE]

\* reached: two texts name the tax stage, 1234 then 5678, and 5678 was confirmed
C12_Witness ==
    /\ ConfirmedOk(last)
    /\ last.nextStage = "insurance"
    /\ users["u1"].activationPins["tax"]
          = [pin |-> "5678", set |-> TRUE, discoveredFromNotification |-> TRUE]
    /\ users["u1"].activationStatus["tax"]
    /\ \E i, j \in Hits("u1", "tax") :
          /\ i < j
          /\ users["u1"].notifications[i].pin = "1234"
          /\ users["u1"].notifications[j].pin = "5678"

\* C13: when the caller has no withdrawal or the newest one is terminal and the
\* call is accepted, create-or-resume adds exactly one withdrawal, owned by the
\* caller, with status preview, stage activation and amount = the stored balance,
\* and changes nothing else.
C13_CreatesOnePreview ==
    \A u \in Actors, op \in CreateOps, i \in PayoutInputs :
        LET latest == Latest(withdrawals, u)
            o == Create(op, users, withdrawals, u, i)
        IN (o.resp.code = 200 /\ (latest = NoWithdrawal \/ Terminal(withdrawals[latest])))
           => /\ Len(o.withdrawals) = Len(withdrawals) + 1
              /\ SubSeq(o.withdrawals, 1, Len(withdrawals)) = withdrawals
              /\ o.withdrawals[Len(o.withdrawals)]
                    = [user |-> u, amount |-> users[u].balance, method |-> i.method,
                       details |-> i.details, status |-> "preview", stage |-> "activation",
                       payments |-> <<>>]
              /\ o.resp.withdrawalId = Len(o.withdrawals)
              /\ o.users = users

\* reached: withdrawRequest created a second withdrawal after the first reached access
C13_Witness ==
    /\ last.op = "withdrawRequest"
    /\ last.msg = "Preview created"
    /\ Len(withdrawals) = 2
    /\ last.withdrawalId = 2
    /\ withdrawals[1].stage = "access"
    /\ withdrawals[2].status = "preview"
    /\ withdrawals[2].stage = "activation"
    /\ withdrawals[2].amount = users["u1"].balance

\* C14: create-or-resume answers InsufficientBalance when the balance is below 1
\* (also at 0.99, not at 1.00) and TimerInactive when the timer is not active, and
\* changes no withdrawal and no user, also when a withdrawal in progress exists.
C14_PreconditionFailures ==
    \A u \in Actors, op \in CreateOps, i \in PayoutInputs :
      \A b \in {users[u].balance, 0, 99, 100} :
        LET U == [users EXCEPT ![u].balance = b]
            o == Create(op, U, withdrawals, u, i)
        IN /\ b < 1 * 100
              => (o.resp.msg = "InsufficientBalance" /\ o.resp.code = 400)
           /\ (b >= 1 * 100 /\ ~U[u].timerActive)
              => (o.resp.msg = "TimerInactive" /\ o.resp.code = 400)
           /\ (b < 1 * 100 \/ ~U[u].timerActive)
              => (o.withdrawals = withdrawals /\ o.users = U)
           /\ (b >= 1 * 100 /\ U[u].timerActive)
              => o.resp.msg \notin {"InsufficientBalance", "TimerInactive"}

\* reached: TimerInactive answered while a withdrawal in progress exists
C14_Witness ==
    /\ last.op \in CreateOps
    /\ last.msg = "TimerInactive"
    /\ NonTerminal(withdrawals, "u1") # {}
    /\ users["u1"].balance >= 1 * 100
    /\ ~users["u1"].timerActive

\* C15: while the caller's timer is not active, create-or-resume, proceed and
\* confirm stage PIN are all rejected and change no withdrawal.
C15_TimerGatesEveryAction ==
    \A u \in Actors :
        ~users[u].timerActive =>
            /\ \A op \in CreateOps, i \in IssuedPayouts :
                LET o == Create(op, users, withdrawals, u, i)
                IN o.resp.code # 200 /\ o.withdrawals = withdrawals
            /\ \A id \in WithdrawalIds :
                LET o == proceedWithdraw(users, withdrawals, u, id)
                IN o.resp.code # 200 /\ o.withdrawals = withdrawals
            /\ \A id \in WithdrawalIds, s \in StageNames, p \in Pins :
                LET o == confirmStagePin(users, withdrawals, u, id, s, p)
                IN o.resp.code # 200 /\ o.withdrawals = withdrawals

Proceed(op, U, W, caller, id) ==
    IF op = "proceedWithdraw" THEN proceedWithdraw(U, W, caller, id)
    ELSE withdrawProceed(U, W, caller, id)

ProceedOps == {"proceedWithdraw", "withdrawProceed"}

\* C16: a proceed on an existing withdrawal owned by a user other than the caller
\* answers Forbidden and leaves the withdrawal unchanged, whatever the state of
\* the caller's own withdrawals, through both proceed handlers.
C16_ForeignProceedForbidden ==
    \A caller \in Users, op \in ProceedOps, id \in 1..Len(withdrawals) :
        withdrawals[id].user # caller
        => LET o == Proceed(op, users, withdrawals, caller, id)
           IN /\ o.resp.msg = "Forbidden"
              /\ o.resp.code = 403
              /\ o.withdrawals[id] = withdrawals[id]

\* C17: a proceed on a withdrawal of the caller that is not the caller's newest,
\* while the newest is non-terminal, returns the newest withdrawal's id, stage and
\* status and changes no withdrawal, through both proceed handlers.
C17_StaleProceedResumesNewest ==
    \A u \in Actors, op \in ProceedOps, id \in 1..Len(withdrawals) :
        LET latest == Latest(withdrawals, u)
            o == Proceed(op, users, withdrawals, u, id)
        IN (/\ withdrawals[id].user = u
            /\ latest # id
            /\ ~Terminal(withdrawals[latest]))
           => /\ o.resp.withdrawalId = latest
              /\ o.resp.stage = withdrawals[latest].stage
              /\ o.resp.status = withdrawals[latest].status
              /\ o.withdrawals = withdrawals

\* the proceed handlers in ops, applied to a withdrawal of the caller that no
\* other non-terminal withdrawal precedes: only the status changes, to
\* pending_activation, and the amount returned is the fee policy's tax at tax, else 0
ProceedEffect(ops) ==
    \A u \in Actors, op \in ops, id \in 1..Len(withdrawals) :
        LET latest == Latest(withdrawals, u)
            o == Proceed(op, users, withdrawals, u, id)
        IN (/\ withdrawals[id].user = u
            /\ (latest = id \/ Terminal(withdrawals[latest])))
           => /\ o.withdrawals = [withdrawals EXCEPT ![id].status = "pending_activation"]
              /\ o.users = users
              /\ o.resp.amount = IF withdrawals[id].stage = "tax"
                                 THEN FeePolicy("tax", users[u].balance)
                                 ELSE 0

\* C18: a proceed that operates on the requested withdrawal sets its status to
\* pending_activation whatever it was, leaves its stage, amount, method, details
\* and payments unchanged, and returns 1% of the current balance to the cent when
\* the stage is tax and 0 otherwise, through both proceed handlers.
C18_ProceedEffect == ProceedEffect(ProceedOps)

Submit(op, U, W, caller, wid, stage, amount, batch) ==
    IF op = "submitStagePayment"
    THEN submitStagePayment(U, W, caller, wid, stage, amount, batch)
    ELSE submitActivationPayment(U, W, caller, wid, stage, amount, batch)

SubmitOps == {"submitStagePayment", "submitActivationPayment"}

\* seq with exactly one element added at the end
OneAppended(before, after) ==
    Len(after) = Len(before) + 1 /\ SubSeq(after, 1, Len(before)) = before

\* C19: a successful stage payment submission on a withdrawal of the caller
\* appends exactly one PaymentSubmission with status submitted to that
\* withdrawal's payments and exactly one record of it to the owner's payments,
\* whatever the size of the batch; a submission against a missing withdrawal or
\* another user's withdrawal answers NotFound or Forbidden and appends nothing.
C19_OneSubmissionPerPayment ==
    \A caller \in Users, op \in SubmitOps, wid \in WithdrawalIds, s \in SubmitStages,
       a \in SubmitAmounts, b \in PaymentBatches :
        LET o == Submit(op, users, withdrawals, caller, wid, s, a, b)
            unchanged == o.users = users /\ o.withdrawals = withdrawals
        IN IF wid \notin 1..Len(withdrawals)
           THEN o.resp.msg = "NotFound" /\ unchanged
           ELSE IF withdrawals[wid].user # caller
           THEN o.resp.msg = "Forbidden" /\ unchanged
           ELSE o.resp.code = 200
                => LET wp == o.withdrawals[wid].payments
                       up == o.users[caller].payments
                       p == wp[Len(wp)]
                       r == up[Len(up)]
                   IN /\ OneAppended(withdrawals[wid].payments, wp)
                      /\ p.status = "submitted" /\ p.stage = s /\ p.amount = a
                      /\ OneAppended(users[caller].payments, up)
                      /\ r.method = p.method /\ r.status = p.status /\ r.cards = p.cards
                      /\ \A j \in 1..Len(withdrawals) :
                            j # wid => o.withdrawals[j] = withdrawals[j]
                      /\ \A v \in Users : v # caller => o.users[v] = users[v]
                      /\ Len(o.withdrawals) = Len(withdrawals)

\* reached: a batch was recorded once, with two cards, on one user's withdrawal
\* while the other user's withdrawal has no payment
C19_Witness ==
    /\ last.op \in SubmitOps
    /\ last.code = 200
    /\ Len(withdrawals) = 2
    /\ withdrawals[1].user # withdrawals[2].user
    /\ \E wid \in 1..2 :
        /\ Len(withdrawals[wid].payments) = 1
        /\ Len(withdrawals[wid].payments[1].cards) = 2
        /\ withdrawals[wid].payments[1].status = "submitted"
        /\ Len(users[withdrawals[wid].user].payments) = 1
        /\ Len(withdrawals[3 - wid].payments) = 0
        /\ Len(users[withdrawals[3 - wid].user].payments) = 0

\* C20: setPinForUser leaves the stage's PinRecord equal to the pin with set true
\* and discoveredFromNotification false whatever record was there, appends exactly
\* one notification "Your {stage} pin is: {pin}" to that user, and changes no
\* PinRecord of another stage, no activationStatus entry and no withdrawal.
C20_SetPinWritesOneRecord ==
    \A u \in Users, s \in StageNames, p \in Pins :
        LET o == setPinForUser(users, withdrawals, u, s, p)
            doc == o.users[u]
        IN /\ o.resp.code = 200
           /\ doc.activationPins[s].pin = p
           /\ doc.activationPins[s].set
           /\ ~doc.activationPins[s].discoveredFromNotification
           /\ \A t \in StageNames \ {s} :
                doc.activationPins[t] = users[u].activationPins[t]
           /\ doc.notifications = Append(users[u].notifications, PinNotification(s, p))
           /\ doc.activationStatus = users[u].activationStatus
           /\ o.withdrawals = withdrawals
           /\ \A v \in Users \ {u} : o.users[v] = users[v]

\* reached: a PIN was issued for tax to a user who had been sent a text naming
\* another code for tax
C20_Witness ==
    /\ last.op = "setPinForUser"
    /\ \E u \in Actors :
        LET n == users[u].notifications
        IN /\ users[u].activationPins["tax"] =
                [pin |-> IssuedPin("tax"), set |-> TRUE, discoveredFromNotification |-> FALSE]
           /\ Len(n) > 1
           /\ n[Len(n)] = PinNotification("tax", IssuedPin("tax"))
           /\ \E i \in 1..Len(n) : n[i].kind = "free" /\ n[i].stage = "tax"

\* C21: through every route of the admin-scoped handlers, a caller whose role is
\* user neither sets a withdrawal's status to approved nor writes a PinRecord.
C21_AdminScopedNeedAdmin ==
    LET kept(o) ==
            /\ \A id \in 1..Len(withdrawals) :
                o.withdrawals[id].status = "approved"
                => withdrawals[id].status = "approved"
            /\ \A u \in Users : o.users[u].activationPins = users[u].activationPins
    IN /\ \A id \in WithdrawalIds :
            /\ kept(routeAdminApprove(users, withdrawals, "user", id))
            /\ kept(routeApproveWithdrawal(users, withdrawals, "user", id))
       /\ \A u \in Users, s \in StageNames, p \in Pins :
            kept(routeSetPin(users, withdrawals, "user", u, s, p))

\* C22: a create request that found no withdrawal in progress inserts its
\* withdrawal whatever has been inserted since, so two concurrent requests of one
\* user that both looked before either wrote leave that user with one more
\* non-terminal withdrawal each.
C22_InsertIgnoresLaterWrites ==
    \A r \in Requests :
        calls[r].pc = "insert"
        => LET u == calls[r].caller
               o == createInsert(users, withdrawals, calls[r])
           IN /\ Len(o.withdrawals) = Len(withdrawals) + 1
              /\ Cardinality(NonTerminal(o.withdrawals, u))
                   = Cardinality(NonTerminal(withdrawals, u)) + 1

\* reached: both requests have been answered "Preview created" and the user has
\* two withdrawals in preview at activation
C22_Witness ==
    /\ \A r \in Requests : calls[r].pc = "idle"
    /\ last.msg = "Preview created"
    /\ Len(withdrawals) = 2
    /\ \A i \in 1..2 :
        /\ withdrawals[i].user = "u1"
        /\ withdrawals[i].status = "preview"
        /\ withdrawals[i].stage = "activation"
    /\ Cardinality(NonTerminal(withdrawals, "u1")) = 2

\* after a successful register(n, p): login(n, p) succeeds with a token, and
\* login(n, q) for every q in wrong(n, p) answers Invalid credentials, no token
LoginAfterRegister(wrong(_, _)) ==
    \A n \in UsernameInputs, p \in PasswordInputs :
        LET reg == register(accounts, n, p)
            good == login(reg.accounts, n, p).resp
        IN reg.resp.code = 200
           => /\ good.code = 200 /\ good.token # NoToken
              /\ \A q \in wrong(n, p) :
                    LET bad == login(reg.accounts, n, q).resp
                    IN /\ bad.code = 400
                       /\ bad.msg = "Invalid credentials"
                       /\ bad.token = NoToken

AnyOtherPassword(n, p) == PasswordInputs \ {p}

NotTheEnvAdminLogin(n, p) ==
    {q \in PasswordInputs \ {p} :
        ~(normalizeUsername(n) = envAdminUsername /\ q = envAdminPassword)}

\* C23 as stated: after a successful register, login with the same username and
\* password succeeds with a token, and login with the same username and any
\* different password answers Invalid credentials and returns no token.
C23_AnyOtherPasswordFails == LoginAfterRegister(AnyOtherPassword)

\* C23, amended: the same, except that for the username ADMIN_USERNAME the
\* password ADMIN_PASSWORD is accepted as the admin login whatever was registered.
C23_OtherPasswordFailsButEnvAdmin == LoginAfterRegister(NotTheEnvAdminLogin)

\* reached: a login with a password other than the registered one was refused
C23_Witness ==
    /\ last.op = "login"
    /\ last.msg = "Invalid credentials"
    /\ \E n \in Usernames :
        /\ n = normalizeUsername(last.caller)
        /\ last.caller # n
        /\ accounts[n].registered

C25_NoPinSetWritesNothing ==
    \A u \in Users, id \in WithdrawalIds, s \in StageNames, p \in Pins :
        (~users[u].activationPins[s].set /\ Hits(u, s) = {})
        => LET o == confirmStagePin(users, withdrawals, u, id, s, p)
           IN /\ o.resp.msg = "NoPinSet"
              /\ o.resp.code = 400
              /\ o.users = users
              /\ o.withdrawals = withdrawals

\* reached: NoPinSet answered to a user who holds a text naming the tax code, for
\* another stage, with a withdrawal open
C25_Witness ==
    /\ last.op = "confirmStagePin"
    /\ last.msg = "NoPinSet"
    /\ Len(withdrawals) > 0
    /\ \E u \in Actors :
        /\ last.caller = u
        /\ Hits(u, "tax") # {}
        /\ ~users[u].activationPins["tax"].set
        /\ \E s \in StageNames : ~users[u].activationPins[s].set /\ Hits(u, s) = {}

\* C26: once a stage has been confirmed and the user's newest withdrawal stands
\* past it, the same stage and PIN submitted again are refused with IncorrectPin
\* when the PinRecord of the withdrawal's current stage holds another pin.
C26_RetryIsRefused ==
    \A u \in Actors, id \in WithdrawalIds, s \in StageNames :
        LET latest == Latest(withdrawals, u)
            p == users[u].activationPins[s].pin
        IN (/\ <<u, s>> \in pinMatched
            /\ latest # NoWithdrawal
            /\ IndexOf(withdrawals[latest].stage) > IndexOf(s)
            /\ withdrawals[latest].stage \in StageNames
            /\ users[u].activationPins[withdrawals[latest].stage].pin # p)
           => LET o == confirmStagePin(users, withdrawals, u, id, s, p)
              IN o.resp.code # 200 /\ o.resp.msg = "IncorrectPin"

\* C27: a successful confirmStagePin naming withdrawal id of the caller changes
\* the stage and status of that withdrawal only; every other withdrawal, a more
\* recent one included, is left as it was.
C27_ConfirmChangesNamedOnly ==
    \A u \in Actors, id \in 1..Len(withdrawals), s \in StageNames, p \in Pins :
        LET o == confirmStagePin(users, withdrawals, u, id, s, p)
        IN (withdrawals[id].user = u /\ o.resp.code = 200)
           => \A j \in 1..Len(withdrawals) :
                j # id => o.withdrawals[j] = withdrawals[j]

\* the stages of the withdrawals that existed before are the same in o
StagesKept(o) ==
    /\ Len(o.withdrawals) >= Len(withdrawals)
    /\ \A i \in 1..Len(withdrawals) : o.withdrawals[i].stage = withdrawals[i].stage

\* status, activationPins and activationStatus are the same in o
ProgressKept(o) ==
    /\ \A i \in 1..Len(withdrawals) : o.withdrawals[i].status = withdrawals[i].status
    /\ \A u \in Users :
        /\ o.users[u].activationPins = users[u].activationPins
        /\ o.users[u].activationStatus = users[u].activationStatus

\* C28: the stage of an existing withdrawal is left unchanged by create-or-resume,
\* proceed, stage payment submission, admin approve, admin set PIN, admin edit
\* user and by a confirmStagePin whose PIN does not match; a stage payment
\* submission also leaves status, activationPins and activationStatus unchanged,
\* whatever stage it declares.
C28_StageMovesOnlyByPinMatch ==
    /\ \A u \in Actors, op \in CreateOps, i \in PayoutInputs :
        StagesKept(Create(op, users, withdrawals, u, i))
    /\ \A u \in Actors, op \in ProceedOps, id \in WithdrawalIds :
        StagesKept(Proceed(op, users, withdrawals, u, id))
    /\ \A u \in Users, op \in SubmitOps, id \in WithdrawalIds, s \in StageNames,
          a \in SubmitAmounts, b \in Batches :
        LET o == Submit(op, users, withdrawals, u, id, s, a, b)
        IN StagesKept(o) /\ ProgressKept(o)
    /\ \A role \in Roles, id \in WithdrawalIds :
        /\ StagesKept(routeAdminApprove(users, withdrawals, role, id))
        /\ StagesKept(routeApproveWithdrawal(users, withdrawals, role, id))
    /\ \A u \in Actors, s \in StageNames, p \in Pins :
        StagesKept(setPinForUser(users, withdrawals, u, s, p))
    /\ \A u \in Actors, b \in BalanceArgs, a \in TimerActions :
        StagesKept(editUser(users, withdrawals, u, b, a))
    /\ \A u \in Actors, id \in WithdrawalIds, s \in StageNames, p \in Pins :
        ~PinAccepted(users, u, s, p)
        => StagesKept(confirmStagePin(users, withdrawals, u, id, s, p))

\* reached: a payment declaring stage security was accepted for a withdrawal that
\* stands at activation, with security neither confirmed nor the status moved
C28_Witness ==
    /\ last.op = "submitStagePayment"
    /\ last.code = 200
    /\ \E i \in 1..Len(withdrawals) :
        /\ Len(withdrawals[i].payments) = 1
        /\ withdrawals[i].payments[1].stage = "security"
        /\ withdrawals[i].stage = "activation"
        /\ withdrawals[i].status = "preview"
        /\ ~users[withdrawals[i].user].activationStatus["security"]

\* the entries of a batch at the indexes its cardsCount declares, in index order
DeclaredEntries(batch) == [i \in 1..batch.cardsCount |-> EntryAt(batch, i)]

IsPresent(c) == c.present

\* C29: for a batch declaring n > 0 cards, the submission recorded on the caller's
\* withdrawal holds, in index order, one card for each declared index whose entry
\* is present and none for a missing entry, and the submission succeeds; through
\* both submission handlers.
C29_MissingEntriesSkipped ==
    \A u \in Users, op \in SubmitOps, id \in 1..Len(withdrawals), s \in SubmitStages,
       a \in SubmitAmounts, b \in PaymentBatches :
        (withdrawals[id].user = u /\ b.cardsCount > 0)
        => LET o == Submit(op, users, withdrawals, u, id, s, a, b)
               recorded == o.withdrawals[id].payments
               present == SelectSeq(DeclaredEntries(b), IsPresent)
           IN /\ o.resp.code = 200
              /\ Len(recorded) = Len(withdrawals[id].payments) + 1
              /\ recorded[Len(recorded)].cards
                   = [k \in 1..Len(present) |-> StoredCard(present[k])]

\* C30: when the upload of one card's file fails, the submission still succeeds
\* and records that card with file null, and every other card of the batch keeps
\* the reference of its own upload; through both submission handlers, for batches
\* whose declared entries are all present.
C30_FailedUploadKeepsCard ==
    \A u \in Users, op \in SubmitOps, id \in 1..Len(withdrawals), s \in SubmitStages,
       a \in SubmitAmounts, b \in PaymentBatches :
        (/\ withdrawals[id].user = u
         /\ b.cardsCount > 0
         /\ \A i \in 1..b.cardsCount : EntryAt(b, i).present
         /\ \E i \in 1..b.cardsCount : EntryAt(b, i).file = "fail")
        => LET o == Submit(op, users, withdrawals, u, id, s, a, b)
               recorded == o.withdrawals[id].payments
               cards == recorded[Len(recorded)].cards
           IN /\ o.resp.code = 200
              /\ Len(recorded) = Len(withdrawals[id].payments) + 1
              /\ Len(cards) = b.cardsCount
              /\ \A i \in 1..b.cardsCount :
                    /\ cards[i].pin = EntryAt(b, i).pin
                    /\ EntryAt(b, i).file = "fail" => cards[i].file = "null"
                    /\ EntryAt(b, i).file = "ok" => cards[i].file = "url"

\* reached: of two cards sent with files, the first kept its reference and the
\* second, whose upload failed, was recorded with file null
C30_Witness ==
    /\ last.op \in SubmitOps
    /\ last.code = 200
    /\ \E i \in 1..Len(withdrawals) :
        /\ Len(withdrawals[i].payments) = 1
        /\ LET cards == withdrawals[i].payments[1].cards
           IN /\ Len(cards) = 2
              /\ cards[1].file = "url"
              /\ cards[2] = [giftCard |-> "Steam", pin |-> "1111", file |-> "null"]

\* the notifications setPinForUser has written to u for stage s: it is the only
\* handler that writes one of kind "pin", one per call, and none is ever removed
Issuances(u, s) ==
    {i \in 1..Len(users[u].notifications) :
        users[u].notifications[i].kind = "pin" /\ users[u].notifications[i].stage = s}

\* C31: a PinRecord with set = true exists for a user and a stage only if
\* setPinForUser ran for them earlier, and its pin is the pin of the latest such
\* call; nothing else creates or alters a PinRecord.
C31_OnlyIssuanceWritesPins ==
    \A u \in Users, s \in StageNames :
        users[u].activationPins[s].set
        => /\ Issuances(u, s) # {}
           /\ LET newest == CHOOSE i \in Issuances(u, s) : \A j \in Issuances(u, s) : j <= i
              IN users[u].activationPins[s].pin = users[u].notifications[newest].pin

\* what every handler of the model would answer and write in the current state
HandlerOutcomes ==
    {Create(op, users, withdrawals, u, i) : op \in CreateOps, u \in Users, i \in PayoutInputs}
    \cup {Proceed(op, users, withdrawals, u, id) :
            op \in ProceedOps, u \in Users, id \in WithdrawalIds}
    \cup {Submit(op, users, withdrawals, u, id, s, a, b) :
            op \in SubmitOps, u \in Users, id \in WithdrawalIds, s \in SubmitStages,
            a \in SubmitAmounts, b \in Batches}
    \cup {confirmStagePin(users, withdrawals, u, id, s, p) :
            u \in Users, id \in WithdrawalIds, s \in StageNames, p \in Pins}
    \cup {adminApprove(users, withdrawals, id) : id \in WithdrawalIds}
    \cup {approveWithdrawal(users, withdrawals, id) : id \in WithdrawalIds}
    \cup {setPinForUser(users, withdrawals, u, s, p) :
            u \in Users, s \in StageNames, p \in Pins}
    \cup {editUser(users, withdrawals, u, b, a) :
            u \in Users, b \in BalanceArgs, a \in TimerActions}
    \cup {notifyUser(users, withdrawals, u, t) : u \in Users, t \in FreeTexts}

IsPrefix(before, after) ==
    Len(before) <= Len(after) /\ SubSeq(after, 1, Len(before)) = before

\* C32: every handler leaves the notifications and the payments a user had as an
\* unchanged prefix of the user's notifications and payments afterwards.
C32_AppendOnly ==
    \A o \in HandlerOutcomes, u \in Users :
        /\ IsPrefix(users[u].notifications, o.users[u].notifications)
        /\ IsPrefix(users[u].payments, o.users[u].payments)

\* reached: a user holding a payment record and four notifications, the newest
\* the acceptance of a code that came in a text
C32_Witness ==
    /\ ConfirmedOk(last)
    /\ \E u \in Actors :
        LET n == users[u].notifications
        IN /\ Len(users[u].payments) = 1
           /\ Len(n) >= 3
           /\ n[1].kind = "credited"
           /\ \E i \in 2..(Len(n) - 1) : n[i].kind = "free"
           /\ n[Len(n)].kind = "accepted"

Approval(op, U, W, id) ==
    IF op = "adminApprove" THEN adminApprove(U, W, id) ELSE approveWithdrawal(U, W, id)

ApproveOps == {"adminApprove", "approveWithdrawal"}

\* C33: the approval of an existing withdrawal sets its status to approved and its
\* owner's balance to 0 and appends one approval notification to the owner,
\* changing nothing else of the withdrawal, of the owner or of anyone else; the
\* approval of an id that does not exist answers NotFound and changes nothing.
C33_ApprovalEffect ==
    \A op \in ApproveOps, id \in WithdrawalIds :
        LET o == Approval(op, users, withdrawals, id)
        IN IF id \notin 1..Len(withdrawals)
           THEN /\ o.resp.msg = "NotFound" /\ o.resp.code = 404
                /\ o.users = users /\ o.withdrawals = withdrawals
           ELSE LET owner == withdrawals[id].user
                IN /\ o.resp.code = 200
                   /\ o.withdrawals = [withdrawals EXCEPT ![id].status = "approved"]
                   /\ o.users[owner].balance = 0
                   /\ o.users[owner].notifications
                        = Append(users[owner].notifications, ApprovedNotification)
                   /\ o.users = [users EXCEPT
                                    ![owner].balance = 0,
                                    ![owner].notifications = o.users[owner].notifications]

\* reached: one user's withdrawal approved and that user's balance zeroed, while
\* the other user, who also holds a withdrawal, keeps the balance
C33_Witness ==
    /\ last.op \in ApproveOps
    /\ last.code = 200
    /\ \E id \in 1..Len(withdrawals), other \in 1..Len(withdrawals) :
        LET owner == withdrawals[id].user
            n == users[owner].notifications
        IN /\ withdrawals[id].status = "approved"
           /\ withdrawals[id].amount > 0
           /\ users[owner].balance = 0
           /\ n[Len(n)] = ApprovedNotification
           /\ withdrawals[other].user # owner
           /\ withdrawals[other].status # "approved"
           /\ users[withdrawals[other].user].balance > 0

\* C34: every user's balance is non-negative in every reachable state, whatever
\* admin edits, timer starts and stops, approvals and timer expiries occurred.
C34_BalanceNonNegative == \A u \in Users : users[u].balance >= 0

\* the successful confirmations so far: each one appends one accepted notification
Confirmations(u) ==
    Cardinality({i \in 1..Len(users[u].notifications) :
                    users[u].notifications[i].kind = "accepted"})

Payable(w) == w.stage = "access" /\ w.status = "ready_for_payout"

\* C35: once the admin issues a PIN for each stage before access and the user
\* confirms each stage in order with the issued PIN, the withdrawal eventually
\* stands at access with status ready_for_payout, and it gets there by exactly
\* five successful confirmations: the stage is always one past the number of
\* confirmations made.
C35_ReachesPayout ==
    /\ [](\A i \in 1..Len(withdrawals) :
            /\ IndexOf(withdrawals[i].stage) = Confirmations("u1")
            /\ (Payable(withdrawals[i]) <=> Confirmations("u1") = Cardinality(PinStages)))
    /\ <>(\A i \in 1..Len(withdrawals) : Payable(withdrawals[i]))

\* reached: the fifth confirmation has put the withdrawal at access
C35_Witness ==
    /\ ConfirmedOk(last)
    /\ Payable(withdrawals[1])
    /\ Confirmations("u1") = 5
    /\ \A s \in PinStages : users["u1"].activationStatus[s]

\* what each withdrawal operation a user can invoke would do for caller a, with
\* every withdrawal id a can supply; the confirmation also once a PIN was issued to a
CallerOutcomes(a) ==
    {Create(op, users, withdrawals, a, i) : op \in CreateOps, i \in PayoutInputs}
    \cup {Proceed(op, users, withdrawals, a, id) : op \in ProceedOps, id \in WithdrawalIds}
    \cup {Submit(op, users, withdrawals, a, id, s, m, b) :
            op \in SubmitOps, id \in WithdrawalIds, s \in SubmitStages,
            m \in SubmitAmounts, b \in Batches}
    \cup {confirmStagePin(users, withdrawals, a, id, s, p) :
            id \in WithdrawalIds, s \in StageNames, p \in Pins}
    \cup {confirmStagePin(setPinForUser(users, withdrawals, a, s, p).users, withdrawals,
                           a, id, s, q) :
            id \in WithdrawalIds, s \in StageNames, p \in Pins, q \in Pins}

\* C36: a create-or-resume, proceed, payment submission or PIN confirmation by
\* caller a, whatever withdrawal id it names, leaves every withdrawal owned by
\* another user b as it was, and b's balance, activationPins, activationStatus
\* and payments as they were.
C36_OtherUsersUntouched ==
    \A a \in Users :
        \A b \in Users \ {a}, o \in CallerOutcomes(a) :
            /\ Len(o.withdrawals) >= Len(withdrawals)
            /\ \A i \in 1..Len(withdrawals) :
                 withdrawals[i].user = b => o.withdrawals[i] = withdrawals[i]
            /\ \A i \in 1..Len(o.withdrawals) :
                 i > Len(withdrawals) => o.withdrawals[i].user = a
            /\ o.users[b].balance = users[b].balance
            /\ o.users[b].activationPins = users[b].activationPins
            /\ o.users[b].activationStatus = users[b].activationStatus
            /\ o.users[b].payments = users[b].payments

\* reached: u1 was refused on u2's withdrawal, which is still a preview, after
\* u1's own withdrawal had moved on
C36_Witness ==
    /\ last.op \in ProceedOps
    /\ last.caller = "u1"
    /\ last.code = 403
    /\ \E i, j \in 1..Len(withdrawals) :
        /\ withdrawals[i].user = "u1" /\ withdrawals[i].status = "pending_activation"
        /\ withdrawals[j].user = "u2" /\ withdrawals[j].status = "preview"

\* both requests were answered with success for stage s
BothConfirmed(s) ==
    \A r \in Requests :
        calls[r].pc = "done" /\ calls[r].code = 200 /\ calls[r].stage = s

\* C37: two confirmStagePin calls of one user for the same stage with the correct
\* PIN, their reads and saves interleaved in any order, leave the user's newest
\* withdrawal at the successor of that stage; and whatever the two calls name,
\* the withdrawal never stands two stages past the stage a call confirmed.
C37_ConcurrentConfirmAdvancesOnce ==
    LET w == withdrawals[Latest(withdrawals, "u1")]
    IN /\ \A s \in RaceStages : BothConfirmed(s) => w.stage = Successor(s)
       /\ \A r \in Requests :
            calls[r].pc = "done" /\ calls[r].code = 200 /\ calls[r].wid # NoWithdrawal
                => \E q \in Requests :
                      /\ calls[q].pc = "done" /\ calls[q].code = 200
                      /\ w.stage = Successor(calls[q].stage)

\* reached: both requests confirmed activation with the issued PIN and the
\* withdrawal, created at activation, stands at tax
C37_Witness ==
    /\ BothConfirmed("activation")
    /\ \A r \in Requests : calls[r].pin = IssuedPin("activation")
    /\ withdrawals[1].stage = "tax"
    /\ users["u1"].activationStatus["activation"]

\* C38: a step makes a withdrawal approved only if, before the step, the
\* withdrawal stands at access with status ready_for_payout.
C38_ApprovedOnlyWhenPayable ==
    [][\A i \in 1..Len(withdrawals) :
          (i <= Len(withdrawals') /\ withdrawals'[i].status = "approved"
              /\ withdrawals[i].status # "approved")
            => Payable(withdrawals[i])]_vars

\* the PIN of the latest setPinForUser for u and s
LatestIssued(u, s) ==
    LET newest == CHOOSE i \in Issuances(u, s) : \A j \in Issuances(u, s) : j <= i
    IN users[u].notifications[newest].pin

\* the answer to a confirmation of stage s with PIN q in the current state
ConfirmResp(u, s, q) == confirmStagePin(users, withdrawals, u, 1, s, q).resp

\* C39: once setPinForUser ran for a user and a stage, a confirmation of that
\* stage succeeds exactly when the submitted PIN is the PIN of the latest such
\* call, and fails with IncorrectPin otherwise: an earlier PIN stops working as
\* soon as a different one is issued, whatever texts and confirmations came between.
C39_LatestIssuedPinDecides ==
    \A s \in StageNames :
        Issuances("u1", s) # {}
        => \A q \in Pins :
              /\ ConfirmResp("u1", s, q).code = 200 <=> q = LatestIssued("u1", s)
              /\ q # LatestIssued("u1", s) => ConfirmResp("u1", s, q).msg = "IncorrectPin"
              /\ \A p2 \in Pins \ {LatestIssued("u1", s)} :
                    LET U2 == setPinForUser(users, withdrawals, "u1", s, p2).users
                        r == confirmStagePin(U2, withdrawals, "u1", 1, s, q).resp
                    IN IF q = p2 THEN r.code = 200 ELSE r.msg = "IncorrectPin"

\* reached: tax was issued one PIN, then the other, and the second was confirmed
C39_Witness ==
    /\ ConfirmedOk(last)
    /\ Cardinality(Issuances("u1", "tax")) = 2
    /\ \E i, j \in Issuances("u1", "tax") :
          /\ i < j
          /\ users["u1"].notifications[i].pin # users["u1"].notifications[j].pin
    /\ users["u1"].activationStatus["tax"]
    /\ users["u1"].activationPins["tax"].pin = LatestIssued("u1", "tax")

\* notifications a user could hold instead: none, or one text or one issuance
\* for the stage with either PIN
OtherNotifications(s) ==
    {<<>>}
    \cup {<<[kind |-> "free", stage |-> s, pin |-> p]>> : p \in Pins}
    \cup {<<PinNotification(s, p)>> : p \in Pins}

\* what a handler outcome appended to the notifications u had
Appended(o, U, u) ==
    SubSeq(o.users[u].notifications, Len(U[u].notifications) + 1,
           Len(o.users[u].notifications))

\* C40: when a set PinRecord exists for the submitted stage, confirmStagePin
\* leaves the user's activationPins as they are, and its answer and everything
\* it writes are the same whatever the user's notifications contain.
C40_SetRecordIgnoresNotifications ==
    \A s \in StageNames, q \in Pins :
        users["u1"].activationPins[s].set
        => LET o == confirmStagePin(users, withdrawals, "u1", 1, s, q)
           IN /\ o.users["u1"].activationPins = users["u1"].activationPins
              /\ \A n \in OtherNotifications(s) :
                    LET Un == [users EXCEPT !["u1"].notifications = n]
                        on == confirmStagePin(Un, withdrawals, "u1", 1, s, q)
                    IN /\ on.resp = o.resp
                       /\ on.withdrawals = o.withdrawals
                       /\ on.users["u1"].activationPins = o.users["u1"].activationPins
                       /\ on.users["u1"].activationStatus = o.users["u1"].activationStatus
                       /\ on.users["u1"].balance = o.users["u1"].balance
                       /\ Appended(on, Un, "u1") = Appended(o, users, "u1")

\* reached: tax confirmed with the issued PIN while an earlier text names
\* another code for tax
C40_Witness ==
    /\ ConfirmedOk(last)
    /\ users["u1"].activationPins["tax"].set
    /\ ~users["u1"].activationPins["tax"].discoveredFromNotification
    /\ users["u1"].activationStatus["tax"]
    /\ \E i \in 1..Len(users["u1"].notifications) :
          /\ users["u1"].notifications[i].kind = "free"
          /\ users["u1"].notifications[i].stage = "tax"
          /\ users["u1"].notifications[i].pin # users["u1"].activationPins["tax"].pin

====
